---- MODULE Spec2Model ----
(***************************************************************************)
(* A model of pdf_image_extraction.core.extractor.PDFExtractor.            *)
(*                                                                         *)
(* SpecOrch   : the Normal-mode orchestrator _extract_all_normal with the  *)
(*              exits of normal_mode and safe_mode, the SIGALRM alarm, the *)
(*              document handle and the output directories.               *)
(* SpecNormal : the page pipeline of normal_mode on one document: the      *)
(*              clusterer build_overlap_set, the routing of the clusters,  *)
(*              assembly_image with merge_images, and the files written    *)
(*              with their counters.                                       *)
(* SpecAssembly: the page pipeline with its steps taken in time.           *)
(* SpecCluster: build_overlap_set alone, with its steps taken in time.     *)
(* SpecPost   : posprocessing_extraction, run twice on one directory of    *)
(*              Normal-mode files.                                         *)
(* SpecSafe   : safe_mode on one document.                                 *)
(* SpecService: ImageExtractorService.extract_images, one call.            *)
(* SpecCorr   : the page correlator of normal_mode: the pass over the      *)
(*              xrefs of each page and the positional fallback.            *)
(*                                                                         *)
(* Lengths are page-space points scaled by 1000 (one unit = 0.001 pt), so  *)
(* OVERLAP_DISTANCE = 1.0 is 1000 and OVERLAP_DISTANCE_BBOX = 0.001 is 1.  *)
(***************************************************************************)
EXTENDS Integers, Sequences, FiniteSets, TLC

(***************************************************************************)
(* Bounds of the model.                                                    *)
(***************************************************************************)
\* number of documents in pdf_files
NumDocs == 2
\* pages of every document
NumPages == 2
\* image records on a page of a document drawn record by record
MaxFigs == 3
\* files in a directory handed to the post-processor
MaxPostFiles == 3
\* entries of get_images on one page of a document in Safe mode
MaxSafeImgs == 3
\* entries of get_images, and layout blocks, on one page under the correlator
MaxCorr == 2
\* the value at which the rotation counter not_found of assembly_image stops
\* being counted; it is above the size of every cluster of the model, and a
\* counter above the size of the working set acts the same whatever its value
MaxNotFound == 16

(***************************************************************************)
(* Program constants (core/constants.py).                                  *)
(***************************************************************************)
EXTRACTION_TIMEOUT == 600
MIN_IMAGE_WIDTH == 10
MIN_IMAGE_HEIGHT == 10

VARIABLES
    \* ---- orchestrator (_extract_all_normal) ----
    index,          \* position of the for loop over pdf_files (1-based)
    pc,             \* where the orchestrator stands
    alarm,          \* seconds of the pending SIGALRM alarm, 0 when none is pending
    page,           \* page of the document the running mode works on (1-based)
    handles,        \* document handles that are open: [doc, mode]
    dirs,           \* per document: does <out>/<pdf[:-4]> exist, and its files
    fallback,       \* per document: the except clause that called safe_mode, or "none"
    purged,         \* per document: the fallback's rmtree removed files of Normal mode
    interrupted,    \* a KeyboardInterrupt is propagating through finally
    diag,           \* documents for which "Can't complete extraction" was printed
    postInvoked,    \* documents on whose directory posprocessing_extraction was called
    started,        \* documents on which normal_mode was called
    outcome,        \* how each document's try statement ended
    \* ---- page pipeline of normal_mode ----
    layout,         \* the document: the image records every page yields
    npc,            \* where normal_mode stands
    img_counter,    \* self.img_counter
    files,          \* the files written so far, in writing order
    xreferred_image_list,   \* the page's working list of records
    overlap_set,    \* build_overlap_set: the list of index sets
    overlap_figs,   \* union_region_fig_overlap: the list of union regions
    old_len_set,    \* build_overlap_set: len(overlap_set) before the pass
    cluster_pos,    \* _handle_overlapping_images: position in overlap_list
    figures,        \* assembly_image: the working list
    distance,       \* assembly_image: the tolerance, in 0.001 pt
    not_found,      \* assembly_image: the rotation counter
    res_obj,        \* assembly_image: res_img / res_obj of the last merge
    \* ---- posprocessing_extraction on one directory ----
    post_dir,       \* the .png files in the directory
    imgs_names,     \* the sorted list of file names
    imgs_infos,     \* the work list: indices into imgs_names
    tested,         \* indices on which is_single_color has been called
    prun,           \* first or second run of the post-processor on the directory
    ppc,            \* where the post-processor stands
    \* ---- safe_mode on one document ----
    spc,            \* where safe_mode stands
    spos,           \* entries of get_images of the page gone through
    xrefs_checked,  \* the list xrefs_checked
    rejected,       \* xrefs for which write_img returned False
    skipped,        \* xrefs met again after they were written
    \* ---- ImageExtractorService.extract_images ----
    svc,            \* the call: its arguments, its surroundings, where it stands
    \* ---- the page correlator of normal_mode (lines 550-580) ----
    cpc,            \* where the correlator stands
    get_images,     \* self.doc[page].get_images(full=True): the xrefs of the page
    cpos,           \* position of the for loop over get_images (1-based)
    all_image_from_page,    \* the layout blocks of the page not claimed yet
    yielded         \* <<xref, page>> for every record made so far

orchVars == <<index, pc, alarm, page, handles, dirs, fallback, purged,
              interrupted, diag, postInvoked, started, outcome>>

orchRest == <<index, pc, alarm, handles, dirs, fallback, purged, interrupted, diag,
              postInvoked, started, outcome>>

clusterVars == <<xreferred_image_list, overlap_set, overlap_figs, old_len_set>>

asmVars == <<figures, distance, not_found, res_obj>>

normVars == <<layout, npc, img_counter, files, clusterVars, cluster_pos, asmVars>>

postVars == <<post_dir, imgs_names, imgs_infos, tested, prun, ppc>>

safeVars == <<spc, spos, xrefs_checked, rejected, skipped>>

\* what the steps of the orchestrator, of the page pipeline, of the
\* post-processor, of safe_mode and of the service leave alone
corrVars == <<cpc, get_images, cpos, all_image_from_page, yielded>>

outOrch == <<normVars, postVars, safeVars, svc, corrVars>>
outNorm == <<postVars, safeVars, svc, corrVars>>
outPost == <<orchVars, normVars, safeVars, svc, corrVars>>
outSafe == <<index, pc, alarm, dirs, fallback, purged, interrupted, diag, postInvoked,
             started, outcome, layout, npc, clusterVars, cluster_pos, asmVars, postVars, svc,
             corrVars>>
outSvc == <<orchVars, normVars, postVars, safeVars, corrVars>>
outCorr == <<orchRest, layout, npc, img_counter, files, overlap_set, overlap_figs, old_len_set,
             cluster_pos, asmVars, postVars, spc, spos, rejected, skipped, svc>>

vars == <<orchVars, normVars, postVars, safeVars, svc, corrVars>>

Docs == 1..NumDocs

(***************************************************************************)
(* Output directory of a document: os.path.isdir, os.mkdir, shutil.rmtree. *)
(* A file is [by, page, coords]: the mode that wrote it, the page in its   *)
(* name and whether the name carries x0..y1 (Normal mode names do, Safe    *)
(* mode names p-<page>-<counter>.png do not).  The orchestrator model      *)
(* keeps one file per mode and page; the counters are modelled with the    *)
(* page pipeline.                                                          *)
(***************************************************************************)
NoDir == [exists |-> FALSE, files |-> {}]

\* if not os.path.exists(extraction_path): os.mkdir(extraction_path)
MakeDir(ds, d) == IF ds[d].exists THEN ds ELSE [ds EXCEPT ![d] = [exists |-> TRUE, files |-> {}]]

\* if os.path.isdir(dir): shutil.rmtree(dir)
RmTreeKeep(ds, d) == ds
RmTree(ds, d) == IF ds[d].exists THEN [ds EXCEPT ![d] = NoDir] ELSE ds

\* a file written into the directory of document d
AddFile(ds, d, f) == [ds EXCEPT ![d].files = @ \cup {f}]

\* plain: the image has one colour only (is_single_color says True of it).
\* The post-processor raises on a Safe-mode name before it looks at a pixel.
NormalFile(p, plain) == [by |-> "normal", page |-> p, coords |-> TRUE, plain |-> plain]
SafeFile(p) == [by |-> "safe", page |-> p, coords |-> FALSE, plain |-> FALSE]

Handle(d, mode) == [doc |-> d, mode |-> mode]

(***************************************************************************)
(* The alarm after an except clause of _extract_all_normal has run up to   *)
(* its call of safe_mode.  TimeoutError: the alarm has fired and the       *)
(* clause arms none.  Exception: alarm(0), then alarm(EXTRACTION_TIMEOUT). *)
(***************************************************************************)
AlarmForFallback(kind) == IF kind = "timeout" THEN 0 ELSE EXTRACTION_TIMEOUT

\* normal_mode at rest
IdleNorm ==
    /\ layout = <<>>
    /\ npc = "idle"
    /\ img_counter = 0
    /\ files = <<>>
    /\ xreferred_image_list = <<>>
    /\ overlap_set = <<>>
    /\ overlap_figs = <<>>
    /\ old_len_set = 0
    /\ cluster_pos = 0
    /\ figures = <<>>
    /\ distance = 0
    /\ not_found = 0
    /\ res_obj = <<>>

\* the orchestrator at rest
IdleOrch ==
    /\ index = 1
    /\ pc = "idle"
    /\ alarm = 0
    /\ page = 1
    /\ handles = {}
    /\ dirs = [d \in Docs |-> NoDir]
    /\ fallback = [d \in Docs |-> "none"]
    /\ purged = [d \in Docs |-> FALSE]
    /\ interrupted = FALSE
    /\ diag = {}
    /\ postInvoked = {}
    /\ started = {}
    /\ outcome = [d \in Docs |-> "none"]

\* safe_mode at rest
IdleSafe ==
    /\ spc = "idle"
    /\ spos = 0
    /\ xrefs_checked = <<>>
    /\ rejected = {}
    /\ skipped = {}

\* no call of the service
IdleSvc == svc = [pc |-> "idle"]

\* the page correlator at rest
IdleCorr ==
    /\ cpc = "idle"
    /\ get_images = <<>>
    /\ cpos = 0
    /\ all_image_from_page = <<>>
    /\ yielded = {}

\* the post-processor at rest
IdlePost ==
    /\ post_dir = {}
    /\ imgs_names = <<>>
    /\ imgs_infos = <<>>
    /\ tested = {}
    /\ prun = 0
    /\ ppc = "idle"

InitOrch ==
    /\ index = 1
    /\ pc = "loop"
    /\ alarm = 0
    /\ page = 0
    /\ handles = {}
    /\ dirs = [d \in Docs |-> NoDir]
    /\ fallback = [d \in Docs |-> "none"]
    /\ purged = [d \in Docs |-> FALSE]
    /\ interrupted = FALSE
    /\ diag = {}
    /\ postInvoked = {}
    /\ started = {}
    /\ outcome = [d \in Docs |-> "none"]
    /\ IdleNorm
    /\ IdlePost
    /\ IdleSafe
    /\ IdleSvc
    /\ IdleCorr

(***************************************************************************)
(* try: signal.alarm(EXTRACTION_TIMEOUT); self.normal_mode(...) up to and  *)
(* including fitz.open, which succeeds.                                    *)
(***************************************************************************)
NormalOpen ==
    /\ pc = "loop"
    /\ alarm' = EXTRACTION_TIMEOUT
    /\ dirs' = MakeDir(dirs, index)
    /\ handles' = handles \cup {Handle(index, "normal")}
    /\ started' = started \cup {index}
    /\ page' = 1
    /\ pc' = "normal"
    /\ UNCHANGED <<index, fallback, purged, interrupted, diag, postInvoked, outcome>>
    /\ UNCHANGED outOrch

(***************************************************************************)
(* The same, with fitz.open raising (before normal_mode's try): no handle  *)
(* is opened and the orchestrator's except Exception clause runs up to its *)
(* call of safe_mode.                                                      *)
(***************************************************************************)
NormalOpenFails ==
    /\ pc = "loop"
    /\ started' = started \cup {index}
    /\ alarm' = AlarmForFallback("exc")
    /\ dirs' = RmTree(MakeDir(dirs, index), index)
    /\ fallback' = [fallback EXCEPT ![index] = "exc"]
    /\ pc' = "safe_start"
    /\ UNCHANGED <<index, page, handles, purged, interrupted, diag, postInvoked, outcome>>
    /\ UNCHANGED outOrch

(***************************************************************************)
(* A file written by the page pipeline of normal_mode for the page.        *)
(***************************************************************************)
NormalWrite ==
    /\ pc = "normal"
    /\ \E plain \in BOOLEAN :
          /\ NormalFile(page, plain) \notin dirs[index].files
          /\ dirs' = AddFile(dirs, index, NormalFile(page, plain))
    /\ UNCHANGED <<index, pc, alarm, page, handles, fallback, purged, interrupted, diag,
                   postInvoked, started, outcome>>
    /\ UNCHANGED outOrch

\* for page in range(len(self.doc)): the next page
NormalNextPage ==
    /\ pc = "normal"
    /\ page < NumPages
    /\ page' = page + 1
    /\ UNCHANGED <<index, pc, alarm, handles, dirs, fallback, purged, interrupted,
                   diag, postInvoked, started, outcome>>
    /\ UNCHANGED outOrch

(***************************************************************************)
(* normal_mode returns after its last page.  Its try statement has the two *)
(* except clauses only: the return path does not call self.doc.close().    *)
(***************************************************************************)
HandlesAfterNormalReturn(d) == handles

NormalReturn ==
    /\ pc = "normal"
    /\ page = NumPages
    /\ handles' = HandlesAfterNormalReturn(index)
    /\ outcome' = [outcome EXCEPT ![index] = "normal_ok"]
    /\ pc' = "finally"
    /\ UNCHANGED <<index, alarm, page, dirs, fallback, purged, interrupted, diag,
                   postInvoked, started>>
    /\ UNCHANGED outOrch

(***************************************************************************)
(* normal_mode raises inside its try: TimeoutError (the pending alarm      *)
(* fires) or another Exception.  normal_mode's except Exception closes the *)
(* document and re-raises; the orchestrator's except clause purges the     *)
(* directory and is about to call safe_mode.                               *)
(***************************************************************************)
NormalFails ==
    /\ pc = "normal"
    /\ \E kind \in {"timeout", "exc"} :
          /\ kind = "timeout" => alarm > 0
          /\ alarm' = AlarmForFallback(kind)
          /\ fallback' = [fallback EXCEPT ![index] = kind]
    /\ handles' = handles \ {Handle(index, "normal")}
    /\ purged' = [purged EXCEPT ![index] = dirs[index].files # {}]
    /\ dirs' = RmTree(dirs, index)
    /\ pc' = "safe_start"
    /\ UNCHANGED <<index, page, interrupted, diag, postInvoked, started,
                   outcome>>
    /\ UNCHANGED outOrch

(***************************************************************************)
(* KeyboardInterrupt inside normal_mode's try: the document is closed, the *)
(* orchestrator's except KeyboardInterrupt clause cancels the alarm and    *)
(* re-raises, and the finally clause is next.                              *)
(***************************************************************************)
NormalInterrupted ==
    /\ pc = "normal"
    /\ handles' = handles \ {Handle(index, "normal")}
    /\ alarm' = 0
    /\ interrupted' = TRUE
    /\ outcome' = [outcome EXCEPT ![index] = "interrupted"]
    /\ pc' = "finally"
    /\ UNCHANGED <<index, page, dirs, fallback, purged, diag, postInvoked, started>>
    /\ UNCHANGED outOrch

(***************************************************************************)
(* safe_mode up to and including fitz.open, which succeeds.                *)
(***************************************************************************)
SafeOpen ==
    /\ pc = "safe_start"
    /\ dirs' = MakeDir(dirs, index)
    /\ handles' = handles \cup {Handle(index, "safe")}
    /\ page' = 1
    /\ pc' = "safe"
    /\ UNCHANGED <<index, alarm, fallback, purged, interrupted, diag, postInvoked, started, outcome>>
    /\ UNCHANGED outOrch

(***************************************************************************)
(* The inner except Exception clause of the orchestrator: the directory is *)
(* removed and the diagnostic printed; nothing is re-raised.               *)
(***************************************************************************)
SecondFailurePcRaise == "raised"
SecondFailurePc == "finally"

SecondFailure(ds) ==
    /\ dirs' = RmTree(ds, index)
    /\ diag' = diag \cup {index}
    /\ outcome' = [outcome EXCEPT ![index] = "both_failed"]
    /\ pc' = SecondFailurePc

\* safe_mode's fitz.open raises (before its try): no handle is opened
SafeOpenFails ==
    /\ pc = "safe_start"
    /\ SecondFailure(MakeDir(dirs, index))
    /\ UNCHANGED <<index, alarm, page, handles, fallback, purged, interrupted, postInvoked, started>>
    /\ UNCHANGED outOrch

(***************************************************************************)
(* An xref of the page in safe_mode for which write_img writes the file    *)
(* (a rejected write changes nothing).                                     *)
(***************************************************************************)
SafeWrite ==
    /\ pc = "safe"
    /\ SafeFile(page) \notin dirs[index].files
    /\ dirs' = AddFile(dirs, index, SafeFile(page))
    /\ UNCHANGED <<index, pc, alarm, page, handles, fallback, purged, interrupted, diag,
                   postInvoked, started, outcome>>
    /\ UNCHANGED outOrch

SafeNextPage ==
    /\ pc = "safe"
    /\ page < NumPages
    /\ page' = page + 1
    /\ UNCHANGED <<index, pc, alarm, handles, dirs, fallback, purged, interrupted,
                   diag, postInvoked, started, outcome>>
    /\ UNCHANGED outOrch

\* safe_mode returns: finally: self.doc.close()
SafeReturn ==
    /\ pc = "safe"
    /\ page = NumPages
    /\ handles' = handles \ {Handle(index, "safe")}
    /\ outcome' = [outcome EXCEPT ![index] = "safe_ok"]
    /\ pc' = "finally"
    /\ UNCHANGED <<index, alarm, page, dirs, fallback, purged, interrupted, diag,
                   postInvoked, started>>
    /\ UNCHANGED outOrch

(***************************************************************************)
(* safe_mode raises inside its try: TimeoutError when an alarm is pending  *)
(* and fires, or another Exception.  Its finally closes the document, the  *)
(* orchestrator's inner except clause handles the failure.                 *)
(***************************************************************************)
SafeFails ==
    /\ pc = "safe"
    /\ \E kind \in {"timeout", "exc"} :
          /\ kind = "timeout" => alarm > 0
          /\ alarm' = IF kind = "timeout" THEN 0 ELSE alarm
    /\ handles' = handles \ {Handle(index, "safe")}
    /\ SecondFailure(dirs)
    /\ UNCHANGED <<index, page, fallback, purged, interrupted, postInvoked, started>>
    /\ UNCHANGED outOrch

(***************************************************************************)
(* KeyboardInterrupt inside safe_mode: its finally closes the document;    *)
(* except Exception does not catch it, so it propagates through the        *)
(* orchestrator's finally clause.                                          *)
(***************************************************************************)
SafeInterrupted ==
    /\ pc = "safe"
    /\ handles' = handles \ {Handle(index, "safe")}
    /\ interrupted' = TRUE
    /\ outcome' = [outcome EXCEPT ![index] = "interrupted"]
    /\ pc' = "finally"
    /\ UNCHANGED <<index, alarm, page, dirs, fallback, purged, diag, postInvoked, started>>
    /\ UNCHANGED outOrch

(***************************************************************************)
(* posprocessing_extraction as the orchestrator sees it.  No directory: it *)
(* returns at once.  The name parser takes the page from                   *)
(* img[img.find("/p-") + 3 : img.find("-x0-")]; for a name without "-x0-"  *)
(* find gives -1, the slice is "<page>-<counter>.pn" and int() raises      *)
(* ValueError.  Otherwise the single-colour files are deleted (lines       *)
(* 402-405); the orchestrator model keeps one file per page and kind, so   *)
(* no two of its files are near-duplicates.                                *)
(***************************************************************************)
PostRaises(d) == dirs[d].exists /\ \E f \in dirs[d].files : ~f.coords

PostKeeps(d) == IF dirs[d].exists THEN {{f \in dirs[d].files : ~f.plain}} ELSE {{}}

(***************************************************************************)
(* The call of posprocessing_extraction stands in the finally clause of    *)
(* the document's try statement, so it is made on every exit of the try:   *)
(* the normal one and the one of a propagating KeyboardInterrupt.          *)
(***************************************************************************)
PostCalledUnlessInterrupted == ~interrupted
PostCalled == TRUE

(***************************************************************************)
(* finally: signal.alarm(0); self.posprocessing_extraction(dir).  Then the *)
(* propagating exception (a KeyboardInterrupt, or the ValueError of the    *)
(* post-processor) leaves extract_all, or the loop goes to the next        *)
(* document.                                                               *)
(***************************************************************************)
Finally ==
    /\ pc = "finally"
    /\ alarm' = 0
    /\ postInvoked' = IF PostCalled THEN postInvoked \cup {index} ELSE postInvoked
    /\ IF PostCalled /\ PostRaises(index)
         THEN /\ pc' = "raised"
              /\ UNCHANGED <<index, dirs>>
         ELSE /\ \E keep \in (IF PostCalled THEN PostKeeps(index) ELSE {dirs[index].files}) :
                    dirs' = [dirs EXCEPT ![index].files = keep]
              /\ IF interrupted
                   THEN pc' = "raised" /\ index' = index
                   ELSE IF index < NumDocs
                          THEN pc' = "loop" /\ index' = index + 1
                          ELSE pc' = "done" /\ index' = index
    /\ UNCHANGED <<page, handles, fallback, purged, interrupted, diag, started,
                   outcome>>
    /\ UNCHANGED outOrch

NextOrch ==
    \/ NormalOpen
    \/ NormalOpenFails
    \/ NormalWrite
    \/ NormalNextPage
    \/ NormalReturn
    \/ NormalFails
    \/ NormalInterrupted
    \/ SafeOpen
    \/ SafeOpenFails
    \/ SafeWrite
    \/ SafeNextPage
    \/ SafeReturn
    \/ SafeFails
    \/ SafeInterrupted
    \/ Finally

SpecOrch == InitOrch /\ [][NextOrch]_vars

(***************************************************************************)
(* Claims on the orchestrator (SpecOrch).                                  *)
(***************************************************************************)

\* C2: once an except clause of the orchestrator has taken over a document
\* (Normal mode failed by timeout or by another exception), the document's
\* directory holds no file of the failed Normal-mode run: it does not exist
\* when safe_mode is about to be called, and every file found in it later was
\* written by the Safe-mode run under a name p-<page>-<n>.png.
C2_FallbackPurgesNormalOutput ==
    \A d \in Docs :
        fallback[d] # "none" =>
            /\ (pc = "safe_start" /\ index = d) => ~dirs[d].exists
            /\ \A f \in dirs[d].files : f.by = "safe" /\ ~f.coords

\* C2 witness: a Normal-mode run that had written a file timed out, the file
\* was purged, and the Safe-mode retry has written a file of its own.
C2_Witness ==
    \E d \in Docs :
        /\ fallback[d] = "timeout"
        /\ purged[d]
        /\ \E f \in dirs[d].files : f.by = "safe"

\* C3: whenever safe_mode is executing as the fallback of a document, an alarm
\* of EXTRACTION_TIMEOUT seconds is pending.
C3_SafeRetryUnderAlarm ==
    pc = "safe" => alarm = EXTRACTION_TIMEOUT

\* C4: when the Safe-mode fallback of a document fails with an exception too,
\* the exception does not leave the orchestrator: the document's directory does
\* not exist, the diagnostic has been printed, extract_all has not been left at
\* that document, and the finally clause of that document hands over to the
\* next document of pdf_files (or ends the loop after the last one).
C4_SecondFailureContained ==
    /\ [](\A d \in Docs :
            outcome[d] = "both_failed" =>
                /\ ~dirs[d].exists
                /\ d \in diag
                /\ ~(pc = "raised" /\ index = d))
    /\ [][(pc = "finally" /\ outcome[index] = "both_failed") =>
            IF index < NumDocs
              THEN pc' = "loop" /\ index' = index + 1
              ELSE pc' = "done"]_vars

\* C4 witness: a document failed in both modes and normal_mode is running on
\* the document after it.
C4_Witness ==
    \E d \in Docs :
        /\ outcome[d] = "both_failed"
        /\ index = d + 1
        /\ pc = "normal"

\* C5: after normal_mode has finished for a document, however it ended, the
\* handle it opened is closed.
C5_NormalHandleClosed ==
    \A d \in started :
        ~(index = d /\ pc = "normal") => Handle(d, "normal") \notin handles

\* C7: for every document the orchestrator has left (the loop moved on, ended,
\* or an exception left extract_all), posprocessing_extraction was called on
\* the document's directory.
C7_PostProcessorAlwaysInvoked ==
    \A d \in started :
        (index > d \/ pc \in {"done", "raised"}) => d \in postInvoked

\* C7 witness: a user interrupt has left extract_all, and the post-processor
\* was called on the interrupted document and on one that failed in both modes.
C7_Witness ==
    /\ pc = "raised"
    /\ outcome[index] = "interrupted"
    /\ index \in postInvoked
    /\ \E d \in Docs : outcome[d] = "both_failed" /\ d \in postInvoked

\* C13: when KeyboardInterrupt arrives during the Normal-mode run of a
\* document, the Normal-mode handle is closed, no Safe-mode fallback is tried
\* for the document, the interrupt leaves extract_all (the loop does not go on),
\* and the finally clause leaves every file of the document's directory in
\* place.
C13_InterruptKeepsOutput ==
    /\ []((outcome[index] = "interrupted" /\ fallback[index] = "none") =>
            /\ Handle(index, "normal") \notin handles
            /\ pc \in {"finally", "raised"})
    /\ [][(pc = "finally" /\ outcome[index] = "interrupted" /\ fallback[index] = "none") =>
            /\ pc' = "raised"
            /\ dirs'[index] = dirs[index]]_vars

\* C21: when the Safe-mode fallback of a document has succeeded, the finally
\* clause (the call of posprocessing_extraction on the directory of files
\* p-<page>-<counter>.png) raises nothing: the files stay and the loop goes on
\* to the next document, or ends after the last one.
C21_PostAcceptsSafeNames ==
    [][(pc = "finally" /\ outcome[index] = "safe_ok") =>
          /\ dirs'[index] = dirs[index]
          /\ IF index < NumDocs
               THEN pc' = "loop" /\ index' = index + 1
               ELSE pc' = "done"]_vars

(***************************************************************************)
(* Geometry.  A rectangle is <<x0, y0, x1, y1>> in units of 0.001 pt; the  *)
(* empty tuple stands for bbox = None.  A point is <<x, y>>.               *)
(***************************************************************************)
OVERLAP_DISTANCE == 1000
OVERLAP_DISTANCE_BBOX == 1

None == <<>>

Abs(x) == IF x < 0 THEN -x ELSE x
Min2(a, b) == IF a <= b THEN a ELSE b
Max2(a, b) == IF a >= b THEN a ELSE b

\* get_rectangles_points: p0 = (x0,y0), p1 = (x1,y0), p2 = (x0,y1), p3 = (x1,y1)
get_rectangles_points(bbox) ==
    << <<bbox[1], bbox[2]>>, <<bbox[3], bbox[2]>>, <<bbox[1], bbox[4]>>, <<bbox[3], bbox[4]>> >>

\* fitz.Point.distance_to(Point) < d, as a comparison of squares
PointDistLt(p, q, d) ==
    LET dx == Abs(p[1] - q[1])
        dy == Abs(p[2] - q[2])
    IN  dx < d /\ dy < d /\ dx * dx + dy * dy < d * d

\* fitz.Point.distance_to(Rect) < d: the distance from p to the nearest point of r
PointRectDistLt(p, r, d) ==
    LET dx == IF p[1] < r[1] THEN r[1] - p[1] ELSE IF p[1] > r[3] THEN p[1] - r[3] ELSE 0
        dy == IF p[2] < r[2] THEN r[2] - p[2] ELSE IF p[2] > r[4] THEN p[2] - r[4] ELSE 0
    IN  dx < d /\ dy < d /\ dx * dx + dy * dy < d * d

\* a in b (fitz.Rect.__contains__ of a rectangle: closed containment)
RectIn(a, b) == b[1] <= a[1] /\ a[3] <= b[3] /\ b[2] <= a[2] /\ a[4] <= b[4]

\* fitz.Rect.include_rect on non-empty rectangles
include_rect(a, b) == <<Min2(a[1], b[1]), Min2(a[2], b[2]), Max2(a[3], b[3]), Max2(a[4], b[4])>>

\* bool(fitz.Rect): false for the rectangle of four zeros only
RectTruthy(b) == b # None /\ b # <<0, 0, 0, 0>>

\* all four corners of the two rectangles coincide
SameLocation(bi, bj) ==
    LET p == get_rectangles_points(bi)
        q == get_rectangles_points(bj)
    IN  p[1] = q[1] /\ p[2] = q[2] /\ p[3] = q[3] /\ p[4] = q[4]

\* an overlap test that takes any two rectangles that intersect
check_overlap_intersecting(bboxi, bboxj, tol, tol_bbox) ==
    /\ ~SameLocation(bboxi, bboxj)
    /\ bboxi[1] <= bboxj[3] /\ bboxj[1] <= bboxi[3]
    /\ bboxi[2] <= bboxj[4] /\ bboxj[2] <= bboxi[4]

check_overlap(bboxi, bboxj, tol, tol_bbox) ==
    LET p == get_rectangles_points(bboxi)
        q == get_rectangles_points(bboxj)
        p0 == p[1]  p1 == p[2]  p2 == p[3]  p3 == p[4]
        q0 == q[1]  q1 == q[2]  q2 == q[3]  q3 == q[4]
    IN  IF SameLocation(bboxi, bboxj) THEN FALSE
        ELSE IF RectIn(bboxi, bboxj) \/ RectIn(bboxj, bboxi) THEN TRUE
        ELSE IF PointDistLt(p1, q0, tol) /\ PointDistLt(p3, q2, tol) THEN TRUE
        ELSE IF PointDistLt(p0, q1, tol) /\ PointDistLt(p2, q3, tol) THEN TRUE
        ELSE IF PointDistLt(p0, q2, tol) /\ PointDistLt(p1, q3, tol) THEN TRUE
        ELSE IF PointDistLt(p2, q0, tol) /\ PointDistLt(p3, q1, tol) THEN TRUE
        ELSE IF /\ PointRectDistLt(p1, bboxj, tol_bbox)
                /\ PointRectDistLt(p3, bboxj, tol_bbox)
                /\ (PointDistLt(p1, q0, tol_bbox) \/ PointDistLt(p3, q2, tol_bbox))
             THEN TRUE
        ELSE IF /\ PointRectDistLt(p0, bboxj, tol_bbox)
                /\ PointRectDistLt(p2, bboxj, tol_bbox)
                /\ (PointDistLt(p0, q1, tol_bbox) \/ PointDistLt(p2, q3, tol_bbox))
             THEN TRUE
        ELSE IF /\ PointRectDistLt(p0, bboxj, tol_bbox)
                /\ PointRectDistLt(p1, bboxj, tol_bbox)
                /\ (PointDistLt(p0, q2, tol_bbox) \/ PointDistLt(p1, q3, tol_bbox))
             THEN TRUE
        ELSE IF /\ PointRectDistLt(p2, bboxj, tol_bbox)
                /\ PointRectDistLt(p3, bboxj, tol_bbox)
                /\ (PointDistLt(p2, q0, tol_bbox) \/ PointDistLt(p3, q1, tol_bbox))
             THEN TRUE
        ELSE FALSE

(***************************************************************************)
(* ImageEmbedded.  xref = 0 is xref None, smask = 0 is no stencil mask,    *)
(* "None" is Python's None for filter, alt_colorspace and the pixmap       *)
(* colorspace.  pixcs is fitz.Pixmap(doc, xref).colorspace of the xref;    *)
(* src are the records of the page whose pixels the image holds, synth     *)
(* tells that the record carries them itself (record.image).               *)
(***************************************************************************)
ImageEmbedded(xref, bbox, smask, filter, colorspace, pixcs, alt_colorspace, width, height) ==
    [xref |-> xref, bbox |-> bbox, smask |-> smask, filter |-> filter,
     colorspace |-> colorspace, pixcs |-> pixcs, alt_colorspace |-> alt_colorspace,
     width |-> width, height |-> height, src |-> {xref}, synth |-> FALSE]

\* ImageEmbedded(None, None)
EmptyImageEmbedded ==
    [xref |-> 0, bbox |-> None, smask |-> 0, filter |-> "None", colorspace |-> 0,
     pixcs |-> "None", alt_colorspace |-> "None", width |-> 0, height |-> 0,
     src |-> {}, synth |-> FALSE]

\* ImageEmbedded.copy: every field but xref, which is cleared
copy(fig) == [fig EXCEPT !.xref = 0, !.bbox = IF RectTruthy(fig.bbox) THEN fig.bbox ELSE None]

\* true iff smask is not 0
has_alpha(fig) == fig.smask # 0

is_valid_size(fig) == fig.width >= MIN_IMAGE_WIDTH /\ fig.height >= MIN_IMAGE_HEIGHT

\* has_overlap without the guard on alt_colorspace
has_overlap_alt_blind(figs, i, j) ==
    IF i = j THEN TRUE
    ELSE IF figs[i].bbox = None \/ figs[j].bbox = None THEN FALSE
    ELSE IF has_alpha(figs[i]) \/ has_alpha(figs[j]) THEN FALSE
    ELSE IF figs[i].xref # 0 /\ figs[j].xref # 0 /\ figs[i].filter # figs[j].filter THEN FALSE
    ELSE IF figs[i].colorspace # figs[j].colorspace THEN FALSE
    ELSE IF figs[i].xref # 0 /\ figs[j].xref # 0 /\ figs[i].pixcs # figs[j].pixcs THEN FALSE
    ELSE check_overlap(figs[i].bbox, figs[j].bbox, OVERLAP_DISTANCE, OVERLAP_DISTANCE_BBOX)

\* has_overlap without the guard on alpha
has_overlap_alpha_blind(figs, i, j) ==
    IF i = j THEN TRUE
    ELSE IF figs[i].bbox = None \/ figs[j].bbox = None THEN FALSE
    ELSE IF figs[i].xref # 0 /\ figs[j].xref # 0 /\ figs[i].filter # figs[j].filter THEN FALSE
    ELSE IF figs[i].colorspace # figs[j].colorspace THEN FALSE
    ELSE IF figs[i].alt_colorspace # figs[j].alt_colorspace THEN FALSE
    ELSE IF figs[i].xref # 0 /\ figs[j].xref # 0 /\ figs[i].pixcs # figs[j].pixcs THEN FALSE
    ELSE check_overlap(figs[i].bbox, figs[j].bbox, OVERLAP_DISTANCE, OVERLAP_DISTANCE_BBOX)

(***************************************************************************)
(* PDFExtractor.has_overlap on the records figs[i], figs[j].  The guards   *)
(* on filter and on the pixmap colorspace apply only when both records     *)
(* carry an xref.                                                          *)
(***************************************************************************)
has_overlap(figs, i, j) ==
    IF i = j THEN TRUE
    ELSE IF figs[i].bbox = None \/ figs[j].bbox = None THEN FALSE
    ELSE IF has_alpha(figs[i]) \/ has_alpha(figs[j]) THEN FALSE
    ELSE IF figs[i].xref # 0 /\ figs[j].xref # 0 /\ figs[i].filter # figs[j].filter THEN FALSE
    ELSE IF figs[i].colorspace # figs[j].colorspace THEN FALSE
    ELSE IF figs[i].alt_colorspace # figs[j].alt_colorspace THEN FALSE
    ELSE IF figs[i].xref # 0 /\ figs[j].xref # 0 /\ figs[i].pixcs # figs[j].pixcs THEN FALSE
    ELSE check_overlap(figs[i].bbox, figs[j].bbox, OVERLAP_DISTANCE, OVERLAP_DISTANCE_BBOX)

(***************************************************************************)
(* The documents of the page pipeline.  A page yields a list of records,   *)
(* each an instance of one of the shapes below, its xref being its place   *)
(* in the document (an xref is handled on one page only); every page of a  *)
(* document yields records of the same shapes.  Sizes are width x height. *)
(*   1 tileA     [0,0,100,100]       RGB DCTDecode   100x100               *)
(*   2 tileB     [100,0,200,100]     RGB DCTDecode   100x100               *)
(*   3 inset     [80,20,120,60]      RGB DCTDecode   40x40                 *)
(*   4 flateB    [100,0,200,100]     RGB FlateDecode 100x100               *)
(*   5 alphaA    [0,0,100,100]       RGB with stencil mask                 *)
(*   6 alphaNone no bbox             RGB with stencil mask                 *)
(*   7 grayIn    [20,20,60,60]       Gray DCTDecode  40x40                 *)
(*   8 tinyB     [100,0,200,100]     RGB DCTDecode   5x5                   *)
(*   9 far       [300,300,400,400]   RGB DCTDecode   100x100               *)
(*  10 wideB     [100,0,400,100]     RGB DCTDecode   400x100               *)
(* and one dense page: a strip [0,0,100,50] of 100x50 beside wideB, and    *)
(* nine insets of 4 pt and 5x5 pixels below the strip, 20 pt apart.        *)
(***************************************************************************)
Shape(bbox, smask, filter, colorspace, pixcs, width, height) ==
    [bbox |-> bbox, smask |-> smask, filter |-> filter, colorspace |-> colorspace,
     pixcs |-> pixcs, alt |-> "", width |-> width, height |-> height]

GenericShapes ==
    << Shape(<<0, 0, 100000, 100000>>, 0, "DCTDecode", 3, "DeviceRGB", 100, 100),
       Shape(<<100000, 0, 200000, 100000>>, 0, "DCTDecode", 3, "DeviceRGB", 100, 100),
       Shape(<<80000, 20000, 120000, 60000>>, 0, "DCTDecode", 3, "DeviceRGB", 40, 40),
       Shape(<<100000, 0, 200000, 100000>>, 0, "FlateDecode", 3, "DeviceRGB", 100, 100),
       Shape(<<0, 0, 100000, 100000>>, 7, "DCTDecode", 3, "DeviceRGB", 100, 100),
       Shape(None, 7, "DCTDecode", 3, "DeviceRGB", 100, 100),
       Shape(<<20000, 20000, 60000, 60000>>, 0, "DCTDecode", 1, "DeviceGray", 40, 40),
       Shape(<<100000, 0, 200000, 100000>>, 0, "DCTDecode", 3, "DeviceRGB", 5, 5),
       Shape(<<300000, 300000, 400000, 400000>>, 0, "DCTDecode", 3, "DeviceRGB", 100, 100),
       Shape(<<100000, 0, 400000, 100000>>, 0, "DCTDecode", 3, "DeviceRGB", 400, 100) >>

\* the strip and the insets of the dense page
DenseShapes ==
    << Shape(<<0, 0, 100000, 50000>>, 0, "DCTDecode", 3, "DeviceRGB", 100, 50),
       Shape(<<10000, 60000, 14000, 64000>>, 0, "DCTDecode", 3, "DeviceRGB", 5, 5),
       Shape(<<30000, 60000, 34000, 64000>>, 0, "DCTDecode", 3, "DeviceRGB", 5, 5),
       Shape(<<50000, 60000, 54000, 64000>>, 0, "DCTDecode", 3, "DeviceRGB", 5, 5),
       Shape(<<70000, 60000, 74000, 64000>>, 0, "DCTDecode", 3, "DeviceRGB", 5, 5),
       Shape(<<90000, 60000, 94000, 64000>>, 0, "DCTDecode", 3, "DeviceRGB", 5, 5),
       Shape(<<10000, 80000, 14000, 84000>>, 0, "DCTDecode", 3, "DeviceRGB", 5, 5),
       Shape(<<30000, 80000, 34000, 84000>>, 0, "DCTDecode", 3, "DeviceRGB", 5, 5),
       Shape(<<50000, 80000, 54000, 84000>>, 0, "DCTDecode", 3, "DeviceRGB", 5, 5),
       Shape(<<70000, 80000, 74000, 84000>>, 0, "DCTDecode", 3, "DeviceRGB", 5, 5) >>

(***************************************************************************)
(* The records of two pages of the specification's scenarios:              *)
(*   S1  [100,50,400,250] and [399.5,50,700,250], RGB DCTDecode, 600x400   *)
(*   S5  [0,0,500,500] of 500x500 and [490,490,540,540] of 50x50           *)
(* and three records that abut tileB on its right, at [200,0,300,100]: one   *)
(* whose alternate colorspace is Separation, one that is an Isolate<n>     *)
(* placement (lines 637-641), and one in DeviceGray; and two records that  *)
(* overlap wideB alone: one of 40x40 inside it, at [250,20,290,60], and    *)
(* one beside it, at [400,0,500,100]; and a record of 10x10 pixels at       *)
(* [0,0,100,100].                                                          *)
(***************************************************************************)
ScenarioShapes ==
    << Shape(<<100000, 50000, 400000, 250000>>, 0, "DCTDecode", 3, "DeviceRGB", 600, 400),
       Shape(<<399500, 50000, 700000, 250000>>, 0, "DCTDecode", 3, "DeviceRGB", 600, 400),
       Shape(<<0, 0, 500000, 500000>>, 0, "DCTDecode", 3, "DeviceRGB", 500, 500),
       Shape(<<490000, 490000, 540000, 540000>>, 0, "DCTDecode", 3, "DeviceRGB", 50, 50),
       [Shape(<<200000, 0, 300000, 100000>>, 0, "DCTDecode", 3, "DeviceRGB", 100, 100)
            EXCEPT !.alt = "Separation"],
       [Shape(<<200000, 0, 300000, 100000>>, 0, "DCTDecode", 3, "DeviceRGB", 100, 100)
            EXCEPT !.alt = "Isolate0"],
       Shape(<<200000, 0, 300000, 100000>>, 0, "DCTDecode", 1, "DeviceGray", 100, 100),
       Shape(<<250000, 20000, 290000, 60000>>, 0, "DCTDecode", 3, "DeviceRGB", 40, 40),
       Shape(<<400000, 0, 500000, 100000>>, 0, "DCTDecode", 3, "DeviceRGB", 100, 100),
       Shape(<<0, 0, 100000, 100000>>, 0, "DCTDecode", 3, "DeviceRGB", 10, 10) >>

Shapes == GenericShapes \o DenseShapes \o ScenarioShapes

\* the dense page: the strip, wideB beside it, and the insets below the strip
DensePage ==
    <<Len(GenericShapes) + 1, Len(GenericShapes)>>
        \o [k \in 1..(Len(DenseShapes) - 1) |-> Len(GenericShapes) + 1 + k]

\* the pages of the scenarios, in both orders of their records
S1Page == <<Len(GenericShapes) + Len(DenseShapes) + 1, Len(GenericShapes) + Len(DenseShapes) + 2>>
S1PageRev == <<S1Page[2], S1Page[1]>>
S5Page == <<Len(GenericShapes) + Len(DenseShapes) + 3, Len(GenericShapes) + Len(DenseShapes) + 4>>
S5PageRev == <<S5Page[2], S5Page[1]>>

\* tileA, tileB and a record beside tileB with another alternate colorspace
\* or another colorspace
GuardPages ==
    {<<1, 2, Len(GenericShapes) + Len(DenseShapes) + k>> : k \in 5..7}
        \cup {<<Len(GenericShapes) + Len(DenseShapes) + k, 1, 2>> : k \in 5..7}

\* tileA, wideB and the two records that overlap wideB alone
FourPage ==
    <<1, Len(GenericShapes), Len(GenericShapes) + Len(DenseShapes) + 8,
      Len(GenericShapes) + Len(DenseShapes) + 9>>

\* the record of 10x10 pixels and wideB beside it
TenPage == <<Len(GenericShapes) + Len(DenseShapes) + 10, Len(GenericShapes)>>

\* eleven records drawn at the place of the first one, and wideB beside them
LoopPage == [k \in 1..12 |-> IF k = 12 THEN Len(GenericShapes) ELSE 1]

ScenarioPages ==
    {S1Page, S1PageRev, S5Page, S5PageRev, FourPage, TenPage, LoopPage} \cup GuardPages

Layouts ==
    UNION {[1..n -> 1..Len(GenericShapes)] : n \in 0..MaxFigs} \cup {DensePage} \cup ScenarioPages

\* the records the page correlator hands to the page driver for a layout
Records(lay, pg) ==
    [k \in 1..Len(lay) |->
        LET sh == Shapes[lay[k]]
        IN  ImageEmbedded((pg - 1) * Len(lay) + k, sh.bbox, sh.smask, sh.filter, sh.colorspace, sh.pixcs,
                          sh.alt, sh.width, sh.height)]

(***************************************************************************)
(* Lists.                                                                  *)
(***************************************************************************)
RemoveAt(seq, j) == SubSeq(seq, 1, j - 1) \o SubSeq(seq, j + 1, Len(seq))

\* list(a set of indices): the indices in ascending order
SetToList(S) ==
    [k \in 1..Cardinality(S) |-> CHOOSE x \in S : Cardinality({y \in S : y < x}) = k - 1]

\* the pairs (i, j), i < j, a scan "for i: for j in range(i, n)" goes through
Pairs(n) == {pr \in (1..n) \X (1..n) : pr[1] < pr[2]}

\* the first of the pairs in hits that the scan meets, or <<0, 0>> when there
\* is none
FirstPair(hits) ==
    IF hits = {} THEN <<0, 0>>
    ELSE CHOOSE pr \in hits :
            \A q \in hits : pr[1] < q[1] \/ (pr[1] = q[1] /\ pr[2] <= q[2])

\* initial sets that leave out the record itself (range(i + 1, n))
InitialSetsNoSelf(figs) ==
    [i \in 1..Len(figs) |-> {j \in (i + 1)..Len(figs) : has_overlap(figs, i, j)}]

(***************************************************************************)
(* build_overlap_set, lines 902-907: overlap_set[i] holds the j >= i with  *)
(* has_overlap(i, j).                                                      *)
(***************************************************************************)
InitialSets(figs) ==
    [i \in 1..Len(figs) |-> {j \in i..Len(figs) : has_overlap(figs, i, j)}]

\* union_intersections_images: the pair its scan merges next
IntersectPair(os) ==
    FirstPair({pr \in Pairs(Len(os)) : os[pr[1]] \cap os[pr[2]] # {}})

\* a merge that forgets the del of the second set
MergeSetsKeep(os, i, j) == [os EXCEPT ![i] = os[i] \cup os[j]]

\* overlap_set[i] = overlap_set[i].union(overlap_set[j]); del overlap_set[j]
MergeSets(os, i, j) == RemoveAt([os EXCEPT ![i] = os[i] \cup os[j]], j)

(***************************************************************************)
(* union_region_fig_overlap, lines 921-940: the union region of one set.   *)
(***************************************************************************)
\* include_rect folded over non-empty rectangles: the smallest rectangle
\* that holds them all
IncludeAll(boxes) ==
    << CHOOSE x \in {r[1] : r \in boxes} : \A r \in boxes : x <= r[1],
       CHOOSE y \in {r[2] : r \in boxes} : \A r \in boxes : y <= r[2],
       CHOOSE x \in {r[3] : r \in boxes} : \A r \in boxes : x >= r[3],
       CHOOSE y \in {r[4] : r \in boxes} : \A r \in boxes : y >= r[4] >>

UnionRegion(figs, set_figs) ==
    LET list_figs == SetToList(set_figs)
        valid == {k \in 1..Len(list_figs) : RectTruthy(figs[list_figs[k]].bbox)}
    IN  IF valid = {} THEN EmptyImageEmbedded
        ELSE LET valid_index_bbox == CHOOSE k \in valid : \A m \in valid : k <= m
             IN  [copy(figs[list_figs[valid_index_bbox]]) EXCEPT
                    !.bbox = IncludeAll({figs[list_figs[k]].bbox :
                                            k \in valid_index_bbox..Len(list_figs)})]

\* lines 920-940: overlap_figs, one union region for every set
RECURSIVE UnionRegions(_, _)
UnionRegions(figs, os) ==
    IF os = <<>> THEN <<>>
    ELSE <<UnionRegion(figs, Head(os))>> \o UnionRegions(figs, Tail(os))

same_location_bbox_used(set_i, set_j, figs) ==
    \E fig_i \in set_i : \E fig_j \in set_j : SameLocation(figs[fig_i].bbox, figs[fig_j].bbox)

\* the pair of union regions the scan of lines 945-956 merges next
RegionPair(figs, os, ofigs) ==
    FirstPair({pr \in Pairs(Len(ofigs)) :
                  /\ has_overlap(ofigs, pr[1], pr[2])
                  /\ ~same_location_bbox_used(os[pr[1]], os[pr[2]], figs)})

MergeRegions(ofigs, i, j) ==
    RemoveAt([ofigs EXCEPT ![i].bbox = include_rect(ofigs[i].bbox, ofigs[j].bbox)], j)

(***************************************************************************)
(* Files.  A file is what its name carries (page, bbox to three decimals,  *)
(* counter), its pixel size, the writer and the records whose pixels it    *)
(* holds.  A record without bbox is named with four 0.000.                 *)
(***************************************************************************)
File(pg, bbox, counter, width, height, kind, src) ==
    [page |-> pg, bbox |-> IF RectTruthy(bbox) THEN bbox ELSE <<0, 0, 0, 0>>,
     counter |-> counter, width |-> width, height |-> height, kind |-> kind, src |-> src]

(***************************************************************************)
(* write_img: rejects a pixmap below the minimum size (the pixmaps of the  *)
(* page pipeline all have a colorspace) or without colorspace.             *)
(***************************************************************************)
write_img(fig) ==
    /\ fig.width >= MIN_IMAGE_WIDTH /\ fig.height >= MIN_IMAGE_HEIGHT
    /\ fig.pixcs # "None"

(***************************************************************************)
(* _save_single_image and _save_alpha_overlapped_image: the file is        *)
(* written through write_img and the counter advances when it was.         *)
(***************************************************************************)
FilesAfterSave(fig, kind) ==
    IF write_img(fig)
      THEN Append(files, File(page, fig.bbox, img_counter, fig.width, fig.height, kind, fig.src))
      ELSE files

CounterAfterSave(fig) == IF write_img(fig) THEN img_counter + 1 ELSE img_counter

(***************************************************************************)
(* The page pipeline starts where NormalOpen leaves the orchestrator on    *)
(* the first document.                                                     *)
(***************************************************************************)
InitNormal ==
    /\ index = 1
    /\ pc = "normal"
    /\ alarm = EXTRACTION_TIMEOUT
    /\ page = 1
    /\ handles = {Handle(1, "normal")}
    /\ dirs = [d \in Docs |-> IF d = 1 THEN [exists |-> TRUE, files |-> {}] ELSE NoDir]
    /\ fallback = [d \in Docs |-> "none"]
    /\ purged = [d \in Docs |-> FALSE]
    /\ interrupted = FALSE
    /\ diag = {}
    /\ postInvoked = {}
    /\ started = {1}
    /\ outcome = [d \in Docs |-> "none"]
    /\ layout \in Layouts
    /\ npc = "page"
    /\ img_counter = 1
    /\ files = <<>>
    /\ xreferred_image_list = <<>>
    /\ overlap_set = <<>>
    /\ overlap_figs = <<>>
    /\ old_len_set = 0
    /\ cluster_pos = 0
    /\ figures = <<>>
    /\ distance = 0
    /\ not_found = 0
    /\ res_obj = <<>>
    /\ IdlePost
    /\ IdleSafe
    /\ IdleSvc
    /\ IdleCorr

\* normal_mode, lines 583-586 with an empty working list: nothing to do
PageEmpty ==
    /\ npc = "page"
    /\ Len(layout) = 0
    /\ npc' = "page_end"
    /\ xreferred_image_list' = <<>>
    /\ UNCHANGED <<orchVars, outNorm, layout, img_counter, files, overlap_set, overlap_figs,
                   old_len_set, cluster_pos, asmVars>>

\* normal_mode, lines 585-586: one record, _save_single_image
PageSingle ==
    /\ npc = "page"
    /\ Len(layout) = 1
    /\ xreferred_image_list' = Records(layout, page)
    /\ files' = FilesAfterSave(Records(layout, page)[1], IF has_alpha(Records(layout, page)[1]) THEN "alpha" ELSE "single")
    /\ img_counter' = CounterAfterSave(Records(layout, page)[1])
    /\ npc' = "page_end"
    /\ UNCHANGED <<orchVars, outNorm, layout, overlap_set, overlap_figs, old_len_set, cluster_pos,
                   asmVars>>

\* lines 583-584 and 680, 902-907: build_overlap_set up to its initial sets
PageCluster ==
    /\ npc = "page"
    /\ Len(layout) > 1
    /\ xreferred_image_list' = Records(layout, page)
    /\ overlap_set' = InitialSets(Records(layout, page))
    /\ overlap_figs' = <<>>
    /\ npc' = "union_a"
    /\ UNCHANGED <<orchVars, outNorm, layout, img_counter, files, old_len_set, cluster_pos, asmVars>>

(***************************************************************************)
(* union_intersections_images, one round of its while loop: the first two  *)
(* sets that intersect are merged and the scan restarts, or the scan finds *)
(* none and the function returns (to line 911 from the call of line 909,   *)
(* to line 959 from the call of line 958).                                 *)
(***************************************************************************)
UnionIntersectMerge ==
    /\ npc \in {"union_a", "union_b"}
    /\ IntersectPair(overlap_set) # <<0, 0>>
    /\ overlap_set' = MergeSets(overlap_set, IntersectPair(overlap_set)[1],
                                IntersectPair(overlap_set)[2])
    /\ UNCHANGED <<orchVars, outNorm, layout, npc, img_counter, files, xreferred_image_list,
                   overlap_figs, old_len_set, cluster_pos, asmVars>>

UnionIntersectDone ==
    /\ npc \in {"union_a", "union_b"}
    /\ IntersectPair(overlap_set) = <<0, 0>>
    /\ npc' = IF npc = "union_a" THEN "region_init" ELSE "fix_check"
    /\ UNCHANGED <<orchVars, outNorm, layout, img_counter, files, clusterVars, cluster_pos, asmVars>>

\* lines 912-913 and 921-940: old_len_set, then the union region of every set
RegionInit ==
    /\ npc = "region_init"
    /\ old_len_set' = Len(overlap_set)
    /\ overlap_figs' = UnionRegions(xreferred_image_list, overlap_set)
    /\ npc' = "region"
    /\ UNCHANGED <<orchVars, outNorm, layout, img_counter, files, xreferred_image_list, overlap_set,
                   cluster_pos, asmVars>>

(***************************************************************************)
(* Lines 942-956, one round of the while loop: the first two union regions *)
(* that overlap and hold no records at the same location are merged and    *)
(* the scan restarts, or the scan ends without a merge.                    *)
(***************************************************************************)
RegionMerge ==
    /\ npc = "region"
    /\ RegionPair(xreferred_image_list, overlap_set, overlap_figs) # <<0, 0>>
    /\ LET pr == RegionPair(xreferred_image_list, overlap_set, overlap_figs)
       IN  /\ overlap_figs' = MergeRegions(overlap_figs, pr[1], pr[2])
           /\ overlap_set' = MergeSets(overlap_set, pr[1], pr[2])
    /\ UNCHANGED <<orchVars, outNorm, layout, npc, img_counter, files, xreferred_image_list,
                   old_len_set, cluster_pos, asmVars>>

RegionDone ==
    /\ npc = "region"
    /\ RegionPair(xreferred_image_list, overlap_set, overlap_figs) = <<0, 0>>
    /\ npc' = "union_b"
    /\ UNCHANGED <<orchVars, outNorm, layout, img_counter, files, clusterVars, cluster_pos, asmVars>>

\* lines 914-917: the pass left the number of sets unchanged, or one more pass
FixedPoint(old_len, os) == old_len = Len(os)

FixCheck ==
    /\ npc = "fix_check"
    /\ IF FixedPoint(old_len_set, overlap_set)
         THEN npc' = "route" /\ cluster_pos' = 1
         ELSE npc' = "region_init" /\ cluster_pos' = cluster_pos
    /\ UNCHANGED <<orchVars, outNorm, layout, img_counter, files, clusterVars, asmVars>>

(***************************************************************************)
(* assembly_image.  distance is kept in 0.001 pt: it starts at 1.0, grows  *)
(* by 0.5 and triggers the escape of lines 1028-1040 at exactly 5.         *)
(***************************************************************************)
InitialDistance == 1000
DistanceStep == 500
EscapeDistance == 5000
AfterEscapeDistance == 500

\* figures.sort(key=lambda x: (x.x1, x.y1, x.x0, x.y0)): a stable sort
SortKey(fig) == <<fig.bbox[3], fig.bbox[4], fig.bbox[1], fig.bbox[2]>>

KeyLess(a, b) ==
    \E k \in 1..4 : a[k] < b[k] /\ \A m \in 1..(k - 1) : a[m] = b[m]

\* the place a stable ascending sort gives the k-th figure of seq
SortPlace(seq, k) ==
    1 + Cardinality({m \in 1..Len(seq) :
                        \/ KeyLess(SortKey(seq[m]), SortKey(seq[k]))
                        \/ (m < k /\ ~KeyLess(SortKey(seq[k]), SortKey(seq[m])))})

SortFigures(seq) ==
    [p \in 1..Len(seq) |-> seq[CHOOSE k \in 1..Len(seq) : SortPlace(seq, k) = p]]

RECURSIVE GCD(_, _)
GCD(a, b) == IF b = 0 THEN a ELSE CHOOSE g \in {GCD(b, r) : r \in {a % b}} : TRUE

\* the two ratios added up instead of averaged
RealSideSum(side, pix_i, len_i, pix_j, len_j) ==
    LET g_i == GCD(side, len_i)
        g_j == GCD(side, len_j)
        n_i == (side \div g_i) * pix_i
        e_i == len_i \div g_i
        n_j == (side \div g_j) * pix_j
        e_j == len_j \div g_j
    IN  (20 * (n_i * e_j + n_j * e_i) + e_i * e_j) \div (20 * e_i * e_j)

(***************************************************************************)
(* merge_images, lines 1125-1129: int(np.round(np.mean([r_i, r_j]), 1))    *)
(* with r = (sketch side * pixel side) / bbox side, computed exactly: the  *)
(* mean plus 0.05, rounded down.                                           *)
(***************************************************************************)
RealSide(side, pix_i, len_i, pix_j, len_j) ==
    LET g_i == GCD(side, len_i)
        g_j == GCD(side, len_j)
        n_i == (side \div g_i) * pix_i
        e_i == len_i \div g_i
        n_j == (side \div g_j) * pix_j
        e_j == len_j \div g_j
    IN  (10 * (n_i * e_j + n_j * e_i) + e_i * e_j) \div (20 * e_i * e_j)

\* the file a sanity guard of lines 1158-1203 flushes, if the image is above 10 px
GuardFlush(obj, counter, pg) ==
    IF obj.width > 10 /\ obj.height > 10
      THEN <<File(pg, obj.bbox, counter, obj.width, obj.height, "guard", obj.src)>>
      ELSE <<>>

(***************************************************************************)
(* merge_images: the record it returns and the file it flushes on the way. *)
(* Of the positions of lines 1132-1155 only x0 and y0 are used later.      *)
(***************************************************************************)
merge_images(obj_i, obj_j, counter, pg) ==
    LET sketch == include_rect(obj_i.bbox, obj_j.bbox)
        real_w == RealSide(sketch[3] - sketch[1], obj_i.width, obj_i.bbox[3] - obj_i.bbox[1],
                           obj_j.width, obj_j.bbox[3] - obj_j.bbox[1])
        real_h == RealSide(sketch[4] - sketch[2], obj_i.height, obj_i.bbox[4] - obj_i.bbox[2],
                           obj_j.height, obj_j.bbox[4] - obj_j.bbox[2])
        x0_i == IF obj_i.bbox[1] < obj_j.bbox[1] THEN 0 ELSE Max2(0, real_w - obj_i.width)
        x0_j == IF obj_i.bbox[1] < obj_j.bbox[1] THEN Max2(0, real_w - obj_j.width) ELSE 0
        y0_i == IF obj_i.bbox[2] < obj_j.bbox[2] THEN 0 ELSE Max2(0, real_h - obj_i.height)
        y0_j == IF obj_i.bbox[2] < obj_j.bbox[2] THEN Max2(0, real_h - obj_j.height) ELSE 0
    IN  IF x0_i < x0_j /\ (x0_i + obj_i.width - x0_j) > 10
          THEN [res |-> obj_i, flush |-> GuardFlush(obj_j, counter, pg)]
        ELSE IF x0_j < x0_i /\ (x0_j + obj_j.width - x0_i) > 10
          THEN [res |-> obj_j, flush |-> GuardFlush(obj_i, counter, pg)]
        ELSE IF y0_i < y0_j /\ (y0_i + obj_i.height - y0_j) > 10
          THEN [res |-> obj_i, flush |-> GuardFlush(obj_j, counter, pg)]
        ELSE IF y0_j < y0_i /\ (y0_j + obj_j.height - y0_i) > 10
          THEN [res |-> obj_j, flush |-> GuardFlush(obj_i, counter, pg)]
        ELSE [res |-> [xref |-> 0, bbox |-> sketch, smask |-> 0, filter |-> "None",
                       colorspace |-> obj_j.colorspace, pixcs |-> "DeviceRGB",
                       alt_colorspace |-> "None", width |-> real_w, height |-> real_h,
                       src |-> obj_i.src \cup obj_j.src, synth |-> TRUE],
              flush |-> <<>>]

(***************************************************************************)
(* _handle_overlapping_images, lines 681-692: the clusters in order, each  *)
(* routed by its first member.                                             *)
(***************************************************************************)
ClusterFigures(figs, os, k) ==
    [m \in 1..Cardinality(os[k]) |-> figs[SetToList(os[k])[m]]]

embedded_overlapping_figures == ClusterFigures(xreferred_image_list, overlap_set, cluster_pos)

RouteToAssembler(figs) == ~has_alpha(figs[1]) /\ Len(figs) > 1

RouteAlpha ==
    /\ npc = "route"
    /\ cluster_pos <= Len(overlap_set)
    /\ has_alpha(embedded_overlapping_figures[1])
    /\ files' = FilesAfterSave(embedded_overlapping_figures[1], "alpha")
    /\ img_counter' = CounterAfterSave(embedded_overlapping_figures[1])
    /\ cluster_pos' = cluster_pos + 1
    /\ UNCHANGED <<orchVars, outNorm, layout, npc, clusterVars, asmVars>>

\* assembly_image, lines 1005-1014
RouteAssembly ==
    /\ npc = "route"
    /\ cluster_pos <= Len(overlap_set)
    /\ RouteToAssembler(embedded_overlapping_figures)
    /\ figures' = SortFigures(embedded_overlapping_figures)
    /\ distance' = InitialDistance
    /\ not_found' = 1
    /\ res_obj' = None
    /\ npc' = "asm"
    /\ UNCHANGED <<orchVars, outNorm, layout, img_counter, files, clusterVars, cluster_pos>>

RouteSingle ==
    /\ npc = "route"
    /\ cluster_pos <= Len(overlap_set)
    /\ ~has_alpha(embedded_overlapping_figures[1])
    /\ ~RouteToAssembler(embedded_overlapping_figures)
    /\ files' = FilesAfterSave(embedded_overlapping_figures[1], "single")
    /\ img_counter' = CounterAfterSave(embedded_overlapping_figures[1])
    /\ cluster_pos' = cluster_pos + 1
    /\ UNCHANGED <<orchVars, outNorm, layout, npc, clusterVars, asmVars>>

RouteEnd ==
    /\ npc = "route"
    /\ cluster_pos > Len(overlap_set)
    /\ npc' = "page_end"
    /\ UNCHANGED <<orchVars, outNorm, layout, img_counter, files, clusterVars, cluster_pos, asmVars>>

(***************************************************************************)
(* assembly_image, one round of the while loop of lines 1016-1050.  obj_i  *)
(* is popped; AsmHits are the places of the remaining figures it overlaps  *)
(* at the current distance.                                                *)
(***************************************************************************)
AsmHits ==
    {j \in 1..(Len(figures) - 1) :
        check_overlap(figures[1].bbox, figures[j + 1].bbox, distance, OVERLAP_DISTANCE_BBOX)}

\* lines 1019-1025, then line 1050
AsmMerge ==
    /\ npc = "asm"
    /\ Len(figures) > 1
    /\ AsmHits # {}
    /\ \E index_j \in {CHOOSE j \in AsmHits : \A m \in AsmHits : j <= m} :
          \E merged \in {merge_images(figures[1], Tail(figures)[index_j], img_counter, page)} :
             /\ figures' = Append(RemoveAt(Tail(figures), index_j), merged.res)
             /\ res_obj' = merged.res
             /\ files' = files \o merged.flush
             /\ img_counter' = img_counter + Len(merged.flush)
    /\ not_found' = 1
    /\ UNCHANGED <<orchVars, outNorm, layout, npc, clusterVars, cluster_pos, distance>>

\* lines 1027-1040: obj_i is written as it is and dropped
AsmEscape ==
    /\ npc = "asm"
    /\ Len(figures) > 1
    /\ AsmHits = {}
    /\ not_found = Len(figures) - 1
    /\ distance = EscapeDistance
    /\ distance' = AfterEscapeDistance
    /\ files' = Append(files, File(page, figures[1].bbox, img_counter, figures[1].width,
                                   figures[1].height, "escape", figures[1].src))
    /\ img_counter' = img_counter + 1
    /\ figures' = Tail(figures)
    /\ UNCHANGED <<orchVars, outNorm, layout, npc, clusterVars, cluster_pos, not_found, res_obj>>

\* lines 1027, 1042-1044, 1050: the distance grows and obj_i is dropped
AsmWiden ==
    /\ npc = "asm"
    /\ Len(figures) > 1
    /\ AsmHits = {}
    /\ not_found = Len(figures) - 1
    /\ distance # EscapeDistance
    /\ distance' = distance + DistanceStep
    /\ not_found' = 1
    /\ figures' = Tail(figures)
    /\ UNCHANGED <<orchVars, outNorm, layout, npc, img_counter, files, clusterVars, cluster_pos,
                   res_obj>>

\* lines 1046-1050: obj_i goes back to the end of the sorted list
AsmRetry ==
    /\ npc = "asm"
    /\ Len(figures) > 1
    /\ AsmHits = {}
    /\ not_found # Len(figures) - 1
    /\ figures' = IF not_found # 0 THEN Append(SortFigures(Tail(figures)), figures[1])
                                   ELSE Tail(figures)
    /\ not_found' = IF not_found < MaxNotFound THEN not_found + 1 ELSE not_found
    /\ UNCHANGED <<orchVars, outNorm, layout, npc, img_counter, files, clusterVars, cluster_pos,
                   distance, res_obj>>

\* lines 1052-1070: the composite of the last merge, under the current counter
CompositeWritten(obj) ==
    obj # None /\ ~(obj.width < MIN_IMAGE_WIDTH \/ obj.height < MIN_IMAGE_HEIGHT)

AsmFinish ==
    /\ npc = "asm"
    /\ Len(figures) <= 1
    /\ files' = IF CompositeWritten(res_obj)
                  THEN Append(files, File(page, res_obj.bbox, img_counter, res_obj.width,
                                          res_obj.height, "composite", res_obj.src))
                  ELSE files
    /\ npc' = "route"
    /\ cluster_pos' = cluster_pos + 1
    /\ UNCHANGED <<orchVars, outNorm, layout, img_counter, clusterVars, asmVars>>

\* normal_mode, line 550: the next page, or the return
PageEnd ==
    /\ npc = "page_end"
    /\ IF page < NumPages
         THEN page' = page + 1 /\ npc' = "page"
         ELSE page' = page /\ npc' = "returned"
    /\ UNCHANGED <<orchRest, outNorm, layout, img_counter, files, clusterVars, cluster_pos, asmVars>>

NextCluster ==
    \/ PageCluster
    \/ UnionIntersectMerge
    \/ UnionIntersectDone
    \/ RegionInit
    \/ RegionMerge
    \/ RegionDone
    \/ FixCheck

NextNormal ==
    \/ PageEmpty
    \/ PageSingle
    \/ NextCluster
    \/ RouteAlpha
    \/ RouteAssembly
    \/ RouteSingle
    \/ RouteEnd
    \/ AsmMerge
    \/ AsmEscape
    \/ AsmWiden
    \/ AsmRetry
    \/ AsmFinish
    \/ PageEnd

SpecNormal == InitNormal /\ [][NextNormal]_vars

\* the page pipeline with every step taken in time
SpecAssembly == InitNormal /\ [][NextNormal]_vars /\ WF_vars(NextNormal)

\* build_overlap_set alone, on the first page, with every step taken in time
SpecCluster == InitNormal /\ [][NextCluster]_vars /\ WF_vars(NextCluster)

(***************************************************************************)
(* Claims on the page pipeline.                                            *)
(***************************************************************************)
\* the filename of lines 707-709: page, bbox to three decimals, counter
FileName(f) == <<f.page, f.bbox, f.counter>>

\* C1: in Normal mode no two files of a document's output directory carry the
\* same counter, whatever the pages and whatever the mix of singleton writes,
\* alpha writes, composites, sanity-guard flushes and escape flushes.
C1_CounterUnique ==
    \A a \in 1..Len(files) : \A b \in 1..Len(files) :
        FileName(files[a]) # FileName(files[b]) => files[a].counter # files[b].counter

\* C6: no written file has a pixel width or height below 10, be it written
\* through write_img, as the assembler's composite, by the corruption-escape
\* flush at distance 5.0 or by the sanity-guard flush of the merge.
C6_MinimumSize ==
    \A k \in 1..Len(files) :
        files[k].width >= MIN_IMAGE_WIDTH /\ files[k].height >= MIN_IMAGE_HEIGHT

\* C8: the sets build_overlap_set returns for N records are pairwise disjoint,
\* their union is exactly the N indices, and a record with a null bbox is the
\* only member of its set.
C8_OverlapSetsPartition ==
    npc = "route" =>
        /\ \A a \in 1..Len(overlap_set) : \A b \in 1..Len(overlap_set) :
              a # b => overlap_set[a] \cap overlap_set[b] = {}
        /\ UNION {overlap_set[a] : a \in 1..Len(overlap_set)} = 1..Len(xreferred_image_list)
        /\ \A k \in 1..Len(xreferred_image_list) :
              xreferred_image_list[k].bbox = None =>
                  \E a \in 1..Len(overlap_set) : overlap_set[a] = {k}

C8_Witness ==
    /\ npc = "route"
    /\ \E a \in 1..Len(overlap_set) : Cardinality(overlap_set[a]) > 1
    /\ \E k \in 1..Len(xreferred_image_list) : xreferred_image_list[k].bbox = None
    /\ Len(overlap_set) > 1

\* C9: build_overlap_set terminates: every merge of the union-by-intersection
\* pass and of the union-by-bounding-box pass strictly decreases the number of
\* clusters, a scan whose overlapping pairs are all blocked by
\* same_location_bbox_used ends the pass without a restart, the outer loop stops
\* when a pass leaves the number of clusters unchanged, and the sets are returned.
C9_BuildOverlapSetTerminates ==
    /\ [][(npc \in {"union_a", "union_b", "region"} /\ overlap_set' # overlap_set)
             => Len(overlap_set') < Len(overlap_set)]_vars
    /\ [][(npc = "region"
           /\ \A i \in 1..Len(overlap_figs) : \A j \in (i + 1)..Len(overlap_figs) :
                 has_overlap(overlap_figs, i, j)
                    => same_location_bbox_used(overlap_set[i], overlap_set[j],
                                               xreferred_image_list))
             => (npc' = "union_b" /\ overlap_set' = overlap_set)]_vars
    /\ [][(npc = "fix_check" /\ old_len_set = Len(overlap_set)) => npc' = "route"]_vars
    /\ (npc = "union_a" ~> npc = "route")

C9_Witness ==
    /\ npc = "route"
    /\ Len(overlap_set) < Len(xreferred_image_list)
    /\ \E i \in 1..Len(overlap_figs) : \E j \in (i + 1)..Len(overlap_figs) :
          /\ has_overlap(overlap_figs, i, j)
          /\ same_location_bbox_used(overlap_set[i], overlap_set[j], xreferred_image_list)

\* C27: assembly_image terminates for every cluster: a round of the loop never
\* makes the working set larger, and a cluster handed to the assembler is
\* through (the loop has ended with at most one record left) after finitely
\* many rounds, also when no pair of its records overlaps at any distance and
\* after the reset of the distance by the escape flush.
C27_AssemblyTerminates ==
    /\ [][npc = "asm" => Len(figures') <= Len(figures)]_vars
    /\ (npc = "asm" ~> (npc = "route" /\ Len(figures) <= 1))

\* C28: check_overlap is symmetric: for any two records of a page with a bbox
\* and every distance the assembler uses (0.5 to 5.0), check_overlap(a, b) and
\* check_overlap(b, a) give the same answer.
C28_CheckOverlapSymmetric ==
    \A i \in 1..Len(xreferred_image_list) : \A j \in 1..Len(xreferred_image_list) :
        (xreferred_image_list[i].bbox # None /\ xreferred_image_list[j].bbox # None) =>
            \A k \in 0..9 :
                check_overlap(xreferred_image_list[i].bbox, xreferred_image_list[j].bbox,
                              AfterEscapeDistance + k * DistanceStep, OVERLAP_DISTANCE_BBOX)
                  = check_overlap(xreferred_image_list[j].bbox, xreferred_image_list[i].bbox,
                                  AfterEscapeDistance + k * DistanceStep, OVERLAP_DISTANCE_BBOX)

\* C29: no cluster build_overlap_set returns holds two records whose bboxes
\* coincide at all four corners, also when both overlap a third record and
\* the union by intersection joins their sets.
C29_NoCoincidentPairInCluster ==
    npc = "route" =>
        \A a \in 1..Len(overlap_set) : \A i \in overlap_set[a] : \A j \in overlap_set[a] :
            (/\ i # j
             /\ xreferred_image_list[i].bbox # None
             /\ xreferred_image_list[j].bbox # None)
               => ~SameLocation(xreferred_image_list[i].bbox, xreferred_image_list[j].bbox)

\* C10: no cluster handed to assembly_image holds a record with a non-zero
\* smask: after both clustering passes every record with alpha is alone in its
\* set, and a cluster under assembly has no alpha record in it.
C10_AlphaIsolation ==
    /\ npc \in {"route", "asm"} =>
          \A k \in 1..Len(xreferred_image_list) :
              has_alpha(xreferred_image_list[k]) =>
                  \E a \in 1..Len(overlap_set) : overlap_set[a] = {k}
    /\ npc = "asm" =>
          /\ \A m \in 1..Len(figures) : ~has_alpha(figures[m])
          /\ Cardinality(overlap_set[cluster_pos]) >= 2
          /\ \A k \in overlap_set[cluster_pos] : ~has_alpha(xreferred_image_list[k])

C10_Witness ==
    /\ npc = "asm"
    /\ \E k \in 1..Len(xreferred_image_list) : \E m \in overlap_set[cluster_pos] :
          /\ has_alpha(xreferred_image_list[k])
          /\ xreferred_image_list[k].bbox # None
          /\ check_overlap(xreferred_image_list[k].bbox, xreferred_image_list[m].bbox,
                           OVERLAP_DISTANCE, OVERLAP_DISTANCE_BBOX)

\* the files written for page q, and whether the page pipeline is through
\* with page q
FilesOfPage(q) == {k \in 1..Len(files) : files[k].page = q}
PageDone(q) == q < page \/ (q = page /\ npc \in {"page_end", "returned"})

\* C14 (scenario S1): for a page with the two 600x400 RGB records at
\* [100,50,400,250] and [399.5,50,700,250], Normal mode writes exactly one file
\* for the page; its name carries the bbox 100.000, 50.000, 700.000, 250.000
\* and its pixel width is within 1200 +/- 2.
C14_ScenarioS1 ==
    \A q \in 1..NumPages :
        (layout \in {S1Page, S1PageRev} /\ PageDone(q)) =>
            /\ Cardinality(FilesOfPage(q)) = 1
            /\ \A k \in FilesOfPage(q) :
                  /\ files[k].bbox = <<100000, 50000, 700000, 250000>>
                  /\ files[k].width >= 1198
                  /\ files[k].width <= 1202

\* C14 witness: normal_mode has returned from a document of S1 pages and the
\* file of the last page is the composite of the page's two records.
C14_Witness ==
    /\ layout = S1Page
    /\ npc = "returned"
    /\ \E k \in FilesOfPage(NumPages) :
          /\ files[k].kind = "composite"
          /\ Cardinality(files[k].src) = 2

\* C15 (scenario S5): for a page with record A of 500x500 at [0,0,500,500] and
\* record B of 50x50 at [490,490,540,540], Normal mode writes two files, one
\* that holds A alone and one that holds B alone.
C15_ScenarioS5 ==
    \A q \in 1..NumPages :
        (layout \in {S5Page, S5PageRev} /\ PageDone(q)) =>
            /\ Cardinality(FilesOfPage(q)) = 2
            /\ Cardinality({FileName(files[k]) : k \in FilesOfPage(q)}) = 2
            /\ \A k \in FilesOfPage(q) : Cardinality(files[k].src) = 1
            /\ \E k \in FilesOfPage(q) :
                  files[k].bbox = <<0, 0, 500000, 500000>> /\ files[k].width = 500
            /\ \E k \in FilesOfPage(q) :
                  files[k].bbox = <<490000, 490000, 540000, 540000>> /\ files[k].width = 50

\* C15 witness: normal_mode has returned from a document of S5 pages, with two
\* files for each page.
C15_Witness ==
    /\ layout = S5Page
    /\ npc = "returned"
    /\ Len(files) = 2 * NumPages
    /\ \A k \in 1..Len(files) : files[k].kind = "single"

\* C19: when build_overlap_set has returned, no cluster holds two records
\* with an xref whose stream filters differ, whichever pass joined them.
C19_ClusterSameFilter ==
    npc = "route" =>
        \A a \in 1..Len(overlap_set) : \A i \in overlap_set[a] : \A j \in overlap_set[a] :
            (xreferred_image_list[i].xref # 0 /\ xreferred_image_list[j].xref # 0)
                => xreferred_image_list[i].filter = xreferred_image_list[j].filter

\* C20: after the pass by pairs with its union by intersection, and when
\* build_overlap_set has returned after the passes by union region, all members
\* of a cluster have the same number of colorspace components and the same
\* alt_colorspace.
C20_ClusterSameColorspace ==
    npc \in {"region_init", "route"} =>
        \A a \in 1..Len(overlap_set) : \A i \in overlap_set[a] : \A j \in overlap_set[a] :
            /\ xreferred_image_list[i].colorspace = xreferred_image_list[j].colorspace
            /\ xreferred_image_list[i].alt_colorspace = xreferred_image_list[j].alt_colorspace

\* C20 witness: build_overlap_set has returned a cluster of two records, and
\* a record that overlaps one of them and has another alt_colorspace (an
\* Isolate<n> tag) is in another cluster.
C20_Witness ==
    /\ npc = "route"
    /\ \E a \in 1..Len(overlap_set) : \E b \in 1..Len(overlap_set) :
          /\ a # b
          /\ Cardinality(overlap_set[a]) = 2
          /\ \E i \in overlap_set[a] : \E k \in overlap_set[b] :
                /\ xreferred_image_list[k].alt_colorspace = "Isolate0"
                /\ xreferred_image_list[i].alt_colorspace = ""
                /\ check_overlap(xreferred_image_list[i].bbox, xreferred_image_list[k].bbox,
                                 OVERLAP_DISTANCE, OVERLAP_DISTANCE_BBOX)

\* C22: when the loop of assembly_image ends with one record left in the
\* working list, the file written then carries the pixels and the bbox of that
\* record, not those of an earlier merge result that has left the list.
C22_FinalFileIsRemainingRecord ==
    [][(npc = "asm" /\ npc' = "route" /\ Len(figures) = 1 /\ files' # files) =>
          /\ files'[Len(files')].src = figures[1].src
          /\ files'[Len(files')].bbox = figures[1].bbox]_vars

\* C23: when merge_images finds that the two records would overlap on the
\* canvas by more than 10 pixels on an axis, it builds no composite and returns
\* one of the two records as they are; the other record, when it has a valid
\* size (10 px included), is then written to a file of its own and the counter
\* advances.
C23_GuardFlushesTheOther ==
    [][(npc = "asm" /\ Len(figures) > 1 /\ AsmHits # {}) =>
          LET index_j == CHOOSE j \in AsmHits : \A m \in AsmHits : j <= m
              obj_i == figures[1]
              obj_j == Tail(figures)[index_j]
              merged == merge_images(obj_i, obj_j, img_counter, page)
              other == IF merged.res = obj_i THEN obj_j ELSE obj_i
          IN  (merged.res \in {obj_i, obj_j} /\ is_valid_size(other)) =>
                 /\ res_obj' = merged.res
                 /\ Len(files') = Len(files) + 1
                 /\ files'[Len(files')].src = other.src
                 /\ files'[Len(files')].counter = img_counter
                 /\ img_counter' = img_counter + 1]_vars

\* the records of page q whose pixels some file of the page holds
WrittenOfPage(q) == UNION {files[k].src : k \in FilesOfPage(q)}

\* C18: in assembly_image a widening of the distance takes no record out of
\* the working list, a record popped at distance 5.0 without partner is written
\* to a file of its own, and when the page is done every member of every
\* cluster that was handed to the assembler is held by a file of the page.
C18_AssemblerKeepsEveryMember ==
    /\ [][(npc = "asm" /\ distance' = distance + DistanceStep)
             => Len(figures') = Len(figures)]_vars
    /\ [][(npc = "asm" /\ distance = EscapeDistance /\ distance' = AfterEscapeDistance)
             => /\ Len(files') = Len(files) + 1
                /\ files'[Len(files')].src = figures[1].src]_vars
    /\ [](npc = "page_end" =>
            \A a \in 1..Len(overlap_set) :
                (Cardinality(overlap_set[a]) > 1
                   /\ \A k \in overlap_set[a] : ~has_alpha(xreferred_image_list[k]))
                  => \A k \in overlap_set[a] :
                        xreferred_image_list[k].xref \in WrittenOfPage(page))

(***************************************************************************)
(* posprocessing_extraction on one directory of Normal-mode files.  A file *)
(* is what its name carries (page, bbox in 0.001 pt, the three decimals of *)
(* the name, and counter) and what Image.open reads from it: size, mode,   *)
(* getextrema() and the pixels (pix: equal numbers are equal pixels).      *)
(* The shapes differ in page, in size, in mode, in pixels, and in bbox:    *)
(* x1 = 400.002 is close to 400.000 both ways, x0 = 199.998 is close to    *)
(* 200.000 as first argument of np.isclose and not as second.              *)
(***************************************************************************)
PostShape(pg, bbox, width, height, mode, extrema, pix) ==
    [page |-> pg, bbox |-> bbox, width |-> width, height |-> height, mode |-> mode,
     extrema |-> extrema, pix |-> pix]

PostShapes ==
    << PostShape(1, <<200000, 50000, 400000, 250000>>, 100, 100, "RGB",
                 <<<<0, 255>>, <<0, 255>>, <<7, 7>>>>, 1),
       PostShape(1, <<200000, 50000, 400000, 250000>>, 100, 100, "RGB",
                 <<<<0, 255>>, <<0, 255>>, <<7, 7>>>>, 2),
       PostShape(1, <<200000, 50000, 400000, 250000>>, 100, 100, "L", <<0, 255>>, 1),
       PostShape(1, <<200000, 50000, 400000, 250000>>, 100, 100, "RGB",
                 <<<<9, 9>>, <<0, 0>>, <<7, 7>>>>, 3),
       PostShape(1, <<200000, 50000, 400002, 250000>>, 100, 100, "RGB",
                 <<<<0, 255>>, <<0, 255>>, <<7, 7>>>>, 1),
       PostShape(1, <<200000, 50000, 400000, 250000>>, 200, 100, "RGB",
                 <<<<0, 255>>, <<0, 255>>, <<7, 7>>>>, 1),
       PostShape(2, <<200000, 50000, 400000, 250000>>, 100, 100, "RGB",
                 <<<<0, 255>>, <<0, 255>>, <<7, 7>>>>, 1),
       PostShape(1, <<200000, 50000, 400000, 250000>>, 100, 100, "L", <<5, 5>>, 3),
       PostShape(1, <<200000, 50000, 400002, 250000>>, 100, 100, "L", <<0, 255>>, 2),
       PostShape(1, <<199998, 50000, 400000, 250000>>, 100, 100, "RGB",
                 <<<<0, 255>>, <<0, 255>>, <<7, 7>>>>, 1),
       PostShape(1, <<199998, 50000, 400000, 250000>>, 100, 100, "L", <<0, 255>>, 1) >>

PostFile(shape, counter) ==
    [page |-> shape.page, bbox |-> shape.bbox, counter |-> counter, width |-> shape.width,
     height |-> shape.height, mode |-> shape.mode, extrema |-> shape.extrema,
     pix |-> shape.pix]

\* the directories: up to MaxPostFiles files, their counters distinct
PostDirs ==
    UNION {{{PostFile(PostShapes[f[k]], k) : k \in 1..n} : f \in [1..n -> 1..Len(PostShapes)]} :
              n \in 0..MaxPostFiles}

\* is_single_color: getextrema() is one (min, max) pair for a single band and
\* a tuple of pairs, one per band, otherwise
is_single_color(f) ==
    IF Len(f.extrema) >= 3
      THEN \A b \in 1..Len(f.extrema) : f.extrema[b][1] = f.extrema[b][2]
      ELSE f.extrema[1] = f.extrema[2]

\* the sort key of lines 361 and 386: int(x[x.rfind("-"):-4]) reads "-<counter>"
NameKey(f) == 0 - f.counter

\* np.isclose(a, b): |a - b| <= 1e-8 + 1e-5 * |b|, on lengths in 0.001 pt
IsClose(a, b) ==
    Abs(a - b) <= 20000 /\ Abs(a - b) * 100000 <= 1 + Abs(b)

\* isclose_infos: page and the four coordinates
isclose_infos(fi, fj) ==
    /\ fi.page = fj.page
    /\ \A k \in 1..4 : IsClose(fi.bbox[k], fj.bbox[k])

(***************************************************************************)
(* is_equal_imgs: whether one of the two files goes, and which ("i", "j"). *)
(* Two files of mode L of the same size: sorted(..., reverse=True) puts    *)
(* the larger key first and last[1] is deleted.                            *)
(***************************************************************************)
is_equal_imgs(fi, fj) ==
    IF fi.width # fj.width \/ fi.height # fj.height THEN [delete |-> FALSE, name |-> "none"]
    ELSE IF fi.mode # fj.mode /\ fj.mode = "L" THEN [delete |-> TRUE, name |-> "j"]
    ELSE IF fi.mode # fj.mode /\ fi.mode = "L" THEN [delete |-> TRUE, name |-> "i"]
    ELSE IF fi.mode = fj.mode /\ fi.mode = "L"
      THEN [delete |-> TRUE, name |-> IF NameKey(fi) >= NameKey(fj) THEN "j" ELSE "i"]
    ELSE IF fi.mode = fj.mode /\ fi.pix = fj.pix THEN [delete |-> TRUE, name |-> "i"]
    ELSE [delete |-> FALSE, name |-> "none"]

\* glob, then sort(key, reverse=True): the names by descending key, names of
\* equal key in the order glob gave them
SortedNames(dir) ==
    {seq \in [1..Cardinality(dir) -> dir] :
        /\ \A a \in 1..Len(seq) : \A b \in 1..Len(seq) : a # b => seq[a] # seq[b]
        /\ \A a \in 1..Len(seq) : \A b \in (a + 1)..Len(seq) :
              NameKey(seq[a]) >= NameKey(seq[b])}

InitPost ==
    /\ IdleOrch
    /\ IdleNorm
    /\ IdleSafe
    /\ IdleSvc
    /\ IdleCorr
    /\ post_dir \in PostDirs
    /\ imgs_names = <<>>
    /\ imgs_infos = <<>>
    /\ tested = {}
    /\ prun = 1
    /\ ppc = "start"

\* lines 385-397
PostStart ==
    /\ ppc = "start"
    /\ \E seq \in SortedNames(post_dir) : imgs_names' = seq
    /\ imgs_infos' = [k \in 1..Cardinality(post_dir) |-> k]
    /\ tested' = {}
    /\ ppc' = "loop"
    /\ UNCHANGED <<outPost, post_dir, prun>>

\* lines 400-405: the head of the work list is single-color and is removed
PostSingle ==
    /\ ppc = "loop"
    /\ imgs_infos # <<>>
    /\ is_single_color(imgs_names[Head(imgs_infos)])
    /\ post_dir' = post_dir \ {imgs_names[Head(imgs_infos)]}
    /\ imgs_infos' = Tail(imgs_infos)
    /\ tested' = tested \cup {Head(imgs_infos)}
    /\ UNCHANGED <<outPost, imgs_names, prun, ppc>>

\* a scan that looks at the next file of the work list only
PostHitsNextOnly ==
    {k \in 1..(Len(imgs_infos) - 1) :
        /\ k = 1
        /\ isclose_infos(imgs_names[imgs_infos[1]], imgs_names[imgs_infos[k + 1]])
        /\ is_equal_imgs(imgs_names[imgs_infos[1]], imgs_names[imgs_infos[k + 1]]).delete}

\* the places of the work list, after the pop, whose file is close to img_i
\* and makes is_equal_imgs say delete
PostHits ==
    {k \in 1..(Len(imgs_infos) - 1) :
        /\ isclose_infos(imgs_names[imgs_infos[1]], imgs_names[imgs_infos[k + 1]])
        /\ is_equal_imgs(imgs_names[imgs_infos[1]], imgs_names[imgs_infos[k + 1]]).delete}

\* a work list in which img_i takes the place of img_j whichever file goes
WorkListAlwaysReplace(rest, k, img_i, name) == [rest EXCEPT ![k] = img_i]

\* lines 414-415: img_i takes the place of img_j when img_j is the file removed
WorkListAfter(rest, k, img_i, name) ==
    IF name = "j" THEN [rest EXCEPT ![k] = img_i] ELSE rest

\* lines 408-417: the first such place; one file is removed, and img_i takes
\* the place of img_j when img_j is the one removed
PostDelete ==
    /\ ppc = "loop"
    /\ imgs_infos # <<>>
    /\ ~is_single_color(imgs_names[Head(imgs_infos)])
    /\ PostHits # {}
    /\ LET img_i == Head(imgs_infos)
           k == CHOOSE x \in PostHits : \A y \in PostHits : x <= y
           img_j == Tail(imgs_infos)[k]
           verdict == is_equal_imgs(imgs_names[img_i], imgs_names[img_j])
       IN  /\ imgs_infos' = WorkListAfter(Tail(imgs_infos), k, img_i, verdict.name)
           /\ post_dir' = post_dir \ {imgs_names[IF verdict.name = "j" THEN img_j ELSE img_i]}
    /\ tested' = tested \cup {Head(imgs_infos)}
    /\ UNCHANGED <<outPost, imgs_names, prun, ppc>>

\* lines 400-413 when nothing is to be deleted
PostKeep ==
    /\ ppc = "loop"
    /\ imgs_infos # <<>>
    /\ ~is_single_color(imgs_names[Head(imgs_infos)])
    /\ PostHits = {}
    /\ imgs_infos' = Tail(imgs_infos)
    /\ tested' = tested \cup {Head(imgs_infos)}
    /\ UNCHANGED <<outPost, post_dir, imgs_names, prun, ppc>>

\* line 399: the work list is empty; the post-processor is run once more
PostEnd ==
    /\ ppc = "loop"
    /\ imgs_infos = <<>>
    /\ IF prun = 1 THEN prun' = 2 /\ ppc' = "start" ELSE prun' = prun /\ ppc' = "done"
    /\ UNCHANGED <<outPost, post_dir, imgs_names, imgs_infos, tested>>

NextPost ==
    \/ PostStart
    \/ PostSingle
    \/ PostDelete
    \/ PostKeep
    \/ PostEnd

SpecPost == InitPost /\ [][NextPost]_vars

C12_PostIdempotent == [][prun = 2 => post_dir' = post_dir]_vars

C12_Witness ==
    /\ prun = 2
    /\ ppc = "done"
    /\ Cardinality(post_dir) >= 2
    /\ \E k \in 1..Len(imgs_names) : \E m \in 1..Len(imgs_names) :
          k # m /\ isclose_infos(imgs_names[k], imgs_names[m])

\* C25: the post-processor examines the files in descending order of their
\* filename counter: the sorted list of names has the largest counter first,
\* and the file popped next has the largest counter of the files not yet
\* examined.
C25_DescendingCounterOrder ==
    /\ [][ppc = "start" =>
            \A a \in 1..Len(imgs_names') : \A b \in (a + 1)..Len(imgs_names') :
                imgs_names'[a].counter >= imgs_names'[b].counter]_vars
    /\ []((ppc = "loop" /\ imgs_infos # <<>> /\ Head(imgs_infos) \notin tested) =>
            \A k \in 2..Len(imgs_infos) :
                imgs_infos[k] \notin tested =>
                    imgs_names[Head(imgs_infos)].counter >= imgs_names[imgs_infos[k]].counter)

\* C26: of two near-duplicate files of equal size that are both of mode L the
\* post-processor deletes the one with the smaller counter and keeps the one
\* with the larger counter, whichever of the two was popped.
C26_GrayKeepsLargerCounter ==
    [][(/\ ppc = "loop"
        /\ imgs_infos # <<>>
        /\ ~is_single_color(imgs_names[Head(imgs_infos)])
        /\ PostHits # {}) =>
          LET img_i == imgs_names[Head(imgs_infos)]
              k == CHOOSE x \in PostHits : \A y \in PostHits : x <= y
              img_j == imgs_names[Tail(imgs_infos)[k]]
              smaller == IF img_i.counter < img_j.counter THEN img_i ELSE img_j
              larger == IF img_i.counter < img_j.counter THEN img_j ELSE img_i
          IN  (img_i.mode = "L" /\ img_j.mode = "L") =>
                 /\ post_dir' = post_dir \ {smaller}
                 /\ larger \in post_dir']_vars

(***************************************************************************)
(* safe_mode on one document.  The xrefs of the document are the places of *)
(* SafeXrefs; every entry that get_images yields on a page names one of    *)
(* them, on any page and any number of times.  A file is what its name     *)
(* p-<page>-<counter>.png carries, and the xref whose pixels it holds.     *)
(***************************************************************************)
\* an image of the document: img[1], and the pixmap fitz.Pixmap(doc, xref)
SafeXref(smask, pixcs, width, height) ==
    [smask |-> smask, pixcs |-> pixcs, width |-> width, height |-> height]

SafeXrefs ==
    << SafeXref(0, "DeviceRGB", 100, 100),
       SafeXref(7, "DeviceRGB", 100, 100),
       SafeXref(0, "DeviceRGB", 5, 100),
       SafeXref(0, "None", 100, 100),
       SafeXref(7, "DeviceGray", 100, 9) >>

SafeOut(pg, counter, xref) == [page |-> pg, counter |-> counter, xref |-> xref]

\* safe_mode, lines 481-488, called on the first document
InitSafe ==
    /\ index = 1
    /\ pc = "safe"
    /\ alarm = 0
    /\ page = 1
    /\ handles = {Handle(1, "safe")}
    /\ dirs = [d \in Docs |-> IF d = 1 THEN [exists |-> TRUE, files |-> {}] ELSE NoDir]
    /\ fallback = [d \in Docs |-> "none"]
    /\ purged = [d \in Docs |-> FALSE]
    /\ interrupted = FALSE
    /\ diag = {}
    /\ postInvoked = {}
    /\ started = {}
    /\ outcome = [d \in Docs |-> "none"]
    /\ layout = <<>>
    /\ npc = "idle"
    /\ img_counter = 1
    /\ files = <<>>
    /\ xreferred_image_list = <<>>
    /\ overlap_set = <<>>
    /\ overlap_figs = <<>>
    /\ old_len_set = 0
    /\ cluster_pos = 0
    /\ figures = <<>>
    /\ distance = 0
    /\ not_found = 0
    /\ res_obj = <<>>
    /\ IdlePost
    /\ IdleSvc
    /\ IdleCorr
    /\ spc = "run"
    /\ spos = 0
    /\ xrefs_checked = <<>>
    /\ rejected = {}
    /\ skipped = {}

\* a membership test that looks at the last xref written only
XrefSeenLast(xref) == xrefs_checked # <<>> /\ xrefs_checked[Len(xrefs_checked)] = xref

\* lines 495-496: if xref in xrefs_checked: continue
XrefSeen(xref) == \E k \in 1..Len(xrefs_checked) : xrefs_checked[k] = xref

\* an entry of the page whose xref was written before
SafeSeen ==
    /\ spc = "run"
    /\ spos < MaxSafeImgs
    /\ \E xref \in 1..Len(SafeXrefs) :
          /\ XrefSeen(xref)
          /\ skipped' = skipped \cup {xref}
    /\ spos' = spos + 1
    /\ UNCHANGED <<outSafe, page, handles, img_counter, files, spc, xrefs_checked, rejected>>

(***************************************************************************)
(* Lines 500-523, either branch: write_img under the name                  *)
(* p-<page + 1>-<img_counter>.png; when it returns True the counter        *)
(* advances and the xref is appended to xrefs_checked.                     *)
(***************************************************************************)
SafeTry(xref) ==
    IF write_img(SafeXrefs[xref])
      THEN /\ files' = Append(files, SafeOut(page, img_counter, xref))
           /\ img_counter' = img_counter + 1
           /\ xrefs_checked' = Append(xrefs_checked, xref)
           /\ rejected' = rejected
      ELSE /\ rejected' = rejected \cup {xref}
           /\ UNCHANGED <<files, img_counter, xrefs_checked>>

\* lines 500-515: an entry with a stencil mask
SafeMasked ==
    /\ spc = "run"
    /\ spos < MaxSafeImgs
    /\ \E xref \in 1..Len(SafeXrefs) :
          /\ ~XrefSeen(xref)
          /\ SafeXrefs[xref].smask # 0
          /\ SafeTry(xref)
    /\ spos' = spos + 1
    /\ UNCHANGED <<outSafe, page, handles, spc, skipped>>

\* lines 516-523: an entry without stencil mask
SafeUnmasked ==
    /\ spc = "run"
    /\ spos < MaxSafeImgs
    /\ \E xref \in 1..Len(SafeXrefs) :
          /\ ~XrefSeen(xref)
          /\ SafeXrefs[xref].smask = 0
          /\ SafeTry(xref)
    /\ spos' = spos + 1
    /\ UNCHANGED <<outSafe, page, handles, spc, skipped>>

\* line 491: the entries of the page are through; the next page
SafePageEnd ==
    /\ spc = "run"
    /\ page < NumPages
    /\ page' = page + 1
    /\ spos' = 0
    /\ UNCHANGED <<outSafe, handles, img_counter, files, spc, xrefs_checked, rejected, skipped>>

\* lines 524-525: after the last page, finally: self.doc.close()
SafeEnd ==
    /\ spc = "run"
    /\ page = NumPages
    /\ handles' = handles \ {Handle(index, "safe")}
    /\ spc' = "returned"
    /\ UNCHANGED <<outSafe, page, img_counter, files, spos, xrefs_checked, rejected, skipped>>

NextSafe ==
    \/ SafeSeen
    \/ SafeMasked
    \/ SafeUnmasked
    \/ SafePageEnd
    \/ SafeEnd

SpecSafe == InitSafe /\ [][NextSafe]_vars

\* C16: in Safe mode every xref is written to at most one file, on however
\* many pages it is met; the k-th file written carries counter k, so the
\* counters are distinct and consecutive from 1 and the next counter is the
\* number of files plus one; a step that writes no file (a rejected write, an
\* xref met again) leaves the counter as it is.
C16_SafeOneFilePerXref ==
    /\ [](\A a \in 1..Len(files) : \A b \in 1..Len(files) :
            files[a].xref = files[b].xref => a = b)
    /\ [](\A k \in 1..Len(files) : files[k].counter = k)
    /\ [](spc # "idle" => img_counter = Len(files) + 1)
    /\ [][files' = files => img_counter' = img_counter]_vars

\* C16 witness: safe_mode has returned; an xref written on one page was met
\* again on a later page, a write was rejected, and there are files of two
\* pages.
C16_Witness ==
    /\ spc = "returned"
    /\ skipped # {}
    /\ rejected # {}
    /\ \E a \in 1..Len(files) : \E b \in 1..Len(files) : files[a].page < files[b].page
    /\ \E k \in 1..Len(files) : files[k].xref \in skipped /\ files[k].page < NumPages

(***************************************************************************)
(* ImageExtractorService.extract_images.  svc holds the service default    *)
(* (validated by __init__), the mode argument ("None" is None), what       *)
(* os.path.isfile and os.path.isdir say, whether the name of the PDF ends  *)
(* with .pdf, how the extraction itself ends when it is started, where the *)
(* call stands and the exception that left it.                             *)
(***************************************************************************)
operations_mode == {"safe", "normal", "unsafe"}

\* mode or self.extraction_mode: None and "" are falsy
ModeInEffect(mode, default) == IF mode \in {"None", ""} THEN default ELSE mode

\* how the run of a valid mode ends: it returns, or an exception leaves it
RunEnds == {"none", "ValueError", "TimeoutError", "KeyboardInterrupt"}

(***************************************************************************)
(* PDFExtractor(input_path=pdf_path), lines 158-173, on an existing file:  *)
(* a name that does not end with .pdf is taken for a directory and         *)
(* os.listdir raises NotADirectoryError.  Then extract_all, lines 220-237. *)
(* The result is the exception that leaves, "none" for a return.           *)
(***************************************************************************)
extract_all(ends_pdf, mode, out_is_dir, run) ==
    IF ~ends_pdf THEN "NotADirectoryError"
    ELSE IF mode \notin operations_mode THEN "ValueError"
    ELSE IF ~out_is_dir THEN "IOError"
    ELSE run

\* except Exception: KeyboardInterrupt is no Exception
IsException(e) == e \notin {"none", "KeyboardInterrupt"}

\* lines 82-83: except Exception as e: raise IOError(...)
ServiceRaises(e) == IF IsException(e) THEN "IOError" ELSE e

InitService ==
    /\ IdleOrch
    /\ IdleNorm
    /\ IdlePost
    /\ IdleSafe
    /\ IdleCorr
    /\ svc \in [pc : {"start"}, default : operations_mode,
                mode : {"None", "", "bogus"} \cup operations_mode,
                pdf_is_file : BOOLEAN, out_is_dir : BOOLEAN, ends_pdf : BOOLEAN,
                run : RunEnds, raised : {"none"}]

\* lines 58-59
ServiceCheckPdf ==
    /\ svc.pc = "start"
    /\ svc' = IF svc.pdf_is_file THEN [svc EXCEPT !.pc = "folder"]
                                 ELSE [svc EXCEPT !.pc = "raised", !.raised = "IOError"]
    /\ UNCHANGED outSvc

\* lines 61-62
ServiceCheckFolder ==
    /\ svc.pc = "folder"
    /\ svc' = IF svc.out_is_dir THEN [svc EXCEPT !.pc = "extract"]
                                ELSE [svc EXCEPT !.pc = "raised", !.raised = "IOError"]
    /\ UNCHANGED outSvc

\* lines 64-83
ServiceExtract ==
    /\ svc.pc = "extract"
    /\ LET e == ServiceRaises(extract_all(svc.ends_pdf, ModeInEffect(svc.mode, svc.default),
                                          svc.out_is_dir, svc.run))
       IN  svc' = IF e = "none" THEN [svc EXCEPT !.pc = "returned"]
                                ELSE [svc EXCEPT !.pc = "raised", !.raised = e]
    /\ UNCHANGED outSvc

NextService ==
    \/ ServiceCheckPdf
    \/ ServiceCheckFolder
    \/ ServiceExtract

SpecService == InitService /\ [][NextService]_vars

\* C17: a call of extract_images that finds the PDF and the output folder and
\* whose mode in effect (the argument, or the service default when none is
\* given) is none of safe, normal, unsafe ends with ValueError; and a call that
\* ends with IOError found no PDF file or no output folder.
C17_ServiceErrors ==
    svc.pc \in {"returned", "raised"} =>
        /\ (svc.pdf_is_file /\ svc.out_is_dir
              /\ ModeInEffect(svc.mode, svc.default) \notin operations_mode)
             => svc.raised = "ValueError"
        /\ svc.raised = "IOError" => (~svc.pdf_is_file \/ ~svc.out_is_dir)

(***************************************************************************)
(* The page correlator of normal_mode, lines 547-580: the pass over the    *)
(* xrefs of the page with _handle_alpha_image and _match_page_content,     *)
(* then the positional fallback _process_unmatched_images.  Byte strings   *)
(* are names: equal names are equal bytes.  An xref of the document is a   *)
(* place of CorrXrefs: its smask, extract_image(xref)["image"], the PNG    *)
(* bytes of its pixmap, the pixmap's colorspace and its size.  A layout    *)
(* block is its image bytes and its bbox.                                  *)
(***************************************************************************)
CorrXref(smask, image, png, pixcs, width, height) ==
    [smask |-> smask, image |-> image, png |-> png, pixcs |-> pixcs,
     width |-> width, height |-> height]

CorrXrefs ==
    << CorrXref(0, "jpeg1", "png1", "DeviceRGB", 100, 100),
       CorrXref(7, "jpeg2", "png2", "DeviceRGB", 100, 100),
       CorrXref(0, "mask3", "png3", "None", 100, 100) >>

\* the blocks a page can show: the image of xref 1, the rendering of xref 2 at
\* the same place, and an image that equals no xref's bytes
CorrBlocks ==
    << [image |-> "jpeg1", bbox |-> <<0, 0, 100000, 100000>>],
       [image |-> "png2", bbox |-> <<0, 0, 100000, 100000>>],
       [image |-> "inline", bbox |-> <<100000, 0, 200000, 100000>>] >>

\* the lists of at most MaxCorr places of a list
ShortLists(n) == UNION {[1..k -> 1..n] : k \in 0..MaxCorr}

\* get_images names every xref of the page once
DistinctLists(n) ==
    {l \in ShortLists(n) : \A a \in 1..Len(l) : \A b \in 1..Len(l) : l[a] = l[b] => a = b}

\* ImageEmbedded(xref, bbox, extract_img, alt_colorspace=..., doc=self.doc)
CorrRecord(xref, bbox, alt) ==
    ImageEmbedded(xref, bbox, CorrXrefs[xref].smask, "DCTDecode", 3, CorrXrefs[xref].pixcs,
                  alt, CorrXrefs[xref].width, CorrXrefs[xref].height)

InList(x, list) == \E k \in 1..Len(list) : list[k] = x

\* f"Isolate{index}", index counted from 0
IsolateTag(i) ==
    IF i = 1 THEN "Isolate0" ELSE IF i = 2 THEN "Isolate1" ELSE "Isolate2"

\* the correlator starts where the page pipeline does
InitCorr ==
    /\ index = 1
    /\ pc = "normal"
    /\ alarm = EXTRACTION_TIMEOUT
    /\ page = 1
    /\ handles = {Handle(1, "normal")}
    /\ dirs = [d \in Docs |-> IF d = 1 THEN [exists |-> TRUE, files |-> {}] ELSE NoDir]
    /\ fallback = [d \in Docs |-> "none"]
    /\ purged = [d \in Docs |-> FALSE]
    /\ interrupted = FALSE
    /\ diag = {}
    /\ postInvoked = {}
    /\ started = {1}
    /\ outcome = [d \in Docs |-> "none"]
    /\ layout = <<>>
    /\ npc = "idle"
    /\ img_counter = 1
    /\ files = <<>>
    /\ xreferred_image_list = <<>>
    /\ overlap_set = <<>>
    /\ overlap_figs = <<>>
    /\ old_len_set = 0
    /\ cluster_pos = 0
    /\ figures = <<>>
    /\ distance = 0
    /\ not_found = 0
    /\ res_obj = <<>>
    /\ IdlePost
    /\ IdleSafe
    /\ IdleSvc
    /\ cpc = "page"
    /\ get_images = <<>>
    /\ cpos = 0
    /\ all_image_from_page = <<>>
    /\ yielded = {}

\* lines 550-556: the blocks and the xrefs of the page, an empty working list
CorrPage ==
    /\ cpc = "page"
    /\ \E imgs \in DistinctLists(Len(CorrXrefs)) : get_images' = imgs
    /\ \E blocks \in ShortLists(Len(CorrBlocks)) :
          all_image_from_page' = [k \in 1..Len(blocks) |-> CorrBlocks[blocks[k]]]
    /\ xreferred_image_list' = <<>>
    /\ cpos' = 1
    /\ cpc' = "xrefs"
    /\ UNCHANGED <<outCorr, page, xrefs_checked, yielded>>

\* lines 560-561: if xref in xrefs_checked: continue
CorrSeen ==
    /\ cpc = "xrefs"
    /\ cpos <= Len(get_images)
    /\ InList(get_images[cpos], xrefs_checked)
    /\ cpos' = cpos + 1
    /\ UNCHANGED <<outCorr, page, xrefs_checked, xreferred_image_list, cpc, get_images,
                   all_image_from_page, yielded>>

(***************************************************************************)
(* _handle_alpha_image: the record takes the bbox of the first block whose *)
(* bytes equal the PNG of the pixmap, or no bbox; the block stays in the   *)
(* list; the xref is marked in both cases.                                 *)
(***************************************************************************)
AlphaBbox(xref, blocks) ==
    LET hits == {k \in 1..Len(blocks) : blocks[k].image = CorrXrefs[xref].png}
    IN  IF hits = {} THEN None
        ELSE blocks[CHOOSE k \in hits : \A m \in hits : k <= m].bbox

CorrAlpha ==
    /\ cpc = "xrefs"
    /\ cpos <= Len(get_images)
    /\ LET xref == get_images[cpos]
       IN  /\ ~InList(xref, xrefs_checked)
           /\ CorrXrefs[xref].smask > 0
           /\ xreferred_image_list' =
                 Append(xreferred_image_list,
                        CorrRecord(xref, AlphaBbox(xref, all_image_from_page), ""))
           /\ xrefs_checked' = Append(xrefs_checked, xref)
           /\ yielded' = yielded \cup {<<xref, page>>}
    /\ cpos' = cpos + 1
    /\ UNCHANGED <<outCorr, page, cpc, get_images, all_image_from_page>>

\* lines 569-571: a pixmap without colorspace is passed over
CorrNoColorspace ==
    /\ cpc = "xrefs"
    /\ cpos <= Len(get_images)
    /\ LET xref == get_images[cpos]
       IN  /\ ~InList(xref, xrefs_checked)
           /\ CorrXrefs[xref].smask = 0
           /\ CorrXrefs[xref].pixcs = "None"
    /\ cpos' = cpos + 1
    /\ UNCHANGED <<outCorr, page, xrefs_checked, xreferred_image_list, cpc, get_images,
                   all_image_from_page, yielded>>

(***************************************************************************)
(* _match_page_content, the while loop from position i on: st holds the    *)
(* working list, xrefs_checked and the blocks.  A block with the bytes of  *)
(* the xref is claimed unless a record with a stencil mask has its bbox    *)
(* (obj.image is None for every record); a placement of an xref that is    *)
(* marked already gets the tag Isolate<index> when the image is above      *)
(* 30x30.  A claimed block is popped and the scan stays at the position.   *)
(***************************************************************************)
RECURSIVE MatchScan(_, _, _)
MatchScan(xref, st, i) ==
    IF i > Len(st.blocks) THEN st
    ELSE IF CorrXrefs[xref].image # st.blocks[i].image THEN MatchScan(xref, st, i + 1)
    ELSE LET secure_to_add ==
                 ~\E k \in 1..Len(st.list) :
                     /\ st.list[k].bbox = st.blocks[i].bbox
                     /\ st.list[k].smask # 0
             alt == IF /\ InList(xref, st.checked)
                       /\ CorrXrefs[xref].width > 30 /\ CorrXrefs[xref].height > 30
                      THEN IsolateTag(i) ELSE ""
         IN  IF secure_to_add
               THEN MatchScan(xref,
                              [list |-> Append(st.list, CorrRecord(xref, st.blocks[i].bbox, alt)),
                               checked |-> Append(st.checked, xref),
                               blocks |-> RemoveAt(st.blocks, i)],
                              i)
               ELSE MatchScan(xref, st, i + 1)

\* lines 573-575
CorrMatch ==
    /\ cpc = "xrefs"
    /\ cpos <= Len(get_images)
    /\ LET xref == get_images[cpos]
           st == MatchScan(xref, [list |-> xreferred_image_list, checked |-> xrefs_checked,
                                  blocks |-> all_image_from_page], 1)
       IN  /\ ~InList(xref, xrefs_checked)
           /\ CorrXrefs[xref].smask = 0
           /\ CorrXrefs[xref].pixcs # "None"
           /\ xreferred_image_list' = st.list
           /\ xrefs_checked' = st.checked
           /\ all_image_from_page' = st.blocks
           /\ yielded' = IF Len(st.list) > Len(xreferred_image_list)
                           THEN yielded \cup {<<xref, page>>} ELSE yielded
    /\ cpos' = cpos + 1
    /\ UNCHANGED <<outCorr, page, cpc, get_images>>

(***************************************************************************)
(* _process_unmatched_images from entry i of get_images on: index counts   *)
(* the entries gone through; an xref that is not marked is paired with the *)
(* block at that index (without bbox when it has a stencil mask).  Nothing *)
(* is appended to xrefs_checked.                                           *)
(***************************************************************************)
RECURSIVE ProcessUnmatched(_, _, _, _, _)
ProcessUnmatched(imgs, blocks, checked, list, i) ==
    IF i > Len(imgs) THEN list
    ELSE IF InList(imgs[i], checked) \/ i - 1 >= Len(blocks)
      THEN ProcessUnmatched(imgs, blocks, checked, list, i + 1)
    ELSE ProcessUnmatched(imgs, blocks, checked,
                          Append(list, CorrRecord(imgs[i],
                                                  IF CorrXrefs[imgs[i]].smask > 0
                                                    THEN None ELSE blocks[i].bbox, "")),
                          i + 1)

\* line 578: if not xreferred_image_list and all_image_from_page
RunsFallback(list, blocks) == list = <<>> /\ blocks # <<>>

\* lines 577-580: the xref pass is through; the positional fallback, or not
CorrFallback ==
    /\ cpc = "xrefs"
    /\ cpos > Len(get_images)
    /\ RunsFallback(xreferred_image_list, all_image_from_page)
    /\ xreferred_image_list' = ProcessUnmatched(get_images, all_image_from_page, xrefs_checked,
                                                xreferred_image_list, 1)
    /\ yielded' = yielded \cup {<<xreferred_image_list'[k].xref, page>> :
                                    k \in 1..Len(xreferred_image_list')}
    /\ cpc' = "page_end"
    /\ UNCHANGED <<outCorr, page, xrefs_checked, get_images, cpos, all_image_from_page>>

CorrNoFallback ==
    /\ cpc = "xrefs"
    /\ cpos > Len(get_images)
    /\ ~RunsFallback(xreferred_image_list, all_image_from_page)
    /\ cpc' = "page_end"
    /\ UNCHANGED <<outCorr, page, xrefs_checked, xreferred_image_list, get_images, cpos,
                   all_image_from_page, yielded>>

\* line 550: the next page (the records of the page have gone to the page
\* driver), or the return
CorrPageEnd ==
    /\ cpc = "page_end"
    /\ IF page < NumPages
         THEN page' = page + 1 /\ cpc' = "page"
         ELSE page' = page /\ cpc' = "returned"
    /\ UNCHANGED <<outCorr, xrefs_checked, xreferred_image_list, get_images, cpos,
                   all_image_from_page, yielded>>

NextCorr ==
    \/ CorrPage
    \/ CorrSeen
    \/ CorrAlpha
    \/ CorrNoColorspace
    \/ CorrMatch
    \/ CorrFallback
    \/ CorrNoFallback
    \/ CorrPageEnd

SpecCorr == InitCorr /\ [][NextCorr]_vars

\* C24: on every page, when the pass over the xrefs is through, no record of
\* the working list has a bbox and layout blocks remain unclaimed, the
\* positional fallback runs: the working list becomes what
\* _process_unmatched_images makes of it; also when the list holds alpha
\* records without bbox.
C24_FallbackWhenNoBbox ==
    [][(/\ cpc = "xrefs"
        /\ cpos > Len(get_images)
        /\ \A k \in 1..Len(xreferred_image_list) : xreferred_image_list[k].bbox = None
        /\ all_image_from_page # <<>>)
          => xreferred_image_list' =
                ProcessUnmatched(get_images, all_image_from_page, xrefs_checked,
                                 xreferred_image_list, 1)]_vars

\* C30: no xref yields records on more than one page, whichever path made
\* the records.
C30_XrefOnOnePage ==
    \A a \in yielded : \A b \in yielded : a[1] = b[1] => a[2] = b[2]
====
